---- MODULE Spec2Model ----
(***************************************************************************)
(* Permission-gated CRUD and audit log of database.py.                     *)
(*                                                                         *)
(* Text values are sequences of one-character strings so that strip(),     *)
(* upper() and lower() are computed, not assumed.  Python None is a        *)
(* distinguished value of each type (NoneStr, NoneInt).                    *)
(***************************************************************************)
EXTENDS Integers, Sequences, FiniteSets, TLC

(* ------------------------------ bounds --------------------------------- *)

\* Number of entity rows a run may insert (each insert advances the clock).
MaxClock == 1

\* Number of PPE records a run of SpecEPIS may insert.
MaxEpis == 2

\* Number of rows the audit table may hold in a run.
MaxAudit == 2

\* Number of rows the CONSOLIDADO table may hold in a run.
MaxConsolidado == 3

\* Number of items of a catalog given to substituir_configuracoes_api, and the
\* largest id upsert_configuracao_api may give to an entry.
MaxItens == 2

\* Number of Blocked-Item records a run of SpecPAGINA may insert.
MaxRegistros == 2

\* Seconds of wall-clock time a run of SpecPAGINA may let pass.
MaxTempo == 120

(* --------------------------- Python values ----------------------------- *)

NoneStr == <<"<None>">>
NoneInt == -1
\* An argument int() rejects (a non-numeric string).
BadInt == -2

RECURSIVE lstrip(_)
lstrip(s) == IF s # <<>> /\ Head(s) = " " THEN lstrip(Tail(s)) ELSE s

RECURSIVE rstrip(_)
rstrip(s) == IF s # <<>> /\ s[Len(s)] = " " THEN rstrip(SubSeq(s, 1, Len(s) - 1)) ELSE s

strip(s) == rstrip(lstrip(s))

\* <<lower case, upper case>> of the cased characters the model uses.
CasePairs ==
    { <<"a", "A">>, <<"b", "B">>, <<"c", "C">>, <<"d", "D">>, <<"e", "E">>,
      <<"i", "I">>, <<"l", "L">>, <<"m", "M">>, <<"n", "N">>, <<"o", "O">>,
      <<"p", "P">>, <<"q", "Q">>, <<"r", "R">>, <<"s", "S">>, <<"t", "T">>,
      <<"u", "U">>, <<"x", "X">>, <<"y", "Y">>, <<"z", "Z">>, <<"ç", "Ç">>,
      <<"ã", "Ã">> }

upperCh(c) == IF \E p \in CasePairs : p[1] = c
              THEN (CHOOSE p \in CasePairs : p[1] = c)[2] ELSE c

lowerCh(c) == IF \E p \in CasePairs : p[2] = c
              THEN (CHOOSE p \in CasePairs : p[2] = c)[1] ELSE c

upper(s) == [i \in 1..Len(s) |-> upperCh(s[i])]

lower(s) == [i \in 1..Len(s) |-> lowerCh(s[i])]

\* (x or "") of the code: None and "" both become "".
OrEmpty(s) == IF s = NoneStr THEN <<>> ELSE s

(* ------------------------------- state --------------------------------- *)

VARIABLES
    usuarios,        \* table usuarios  (UserModel rows)
    CurrentUser,     \* class _CurrentUser: username, user_id, tipo
    registros,       \* table registros (RegistroModel rows)
    MONITORAMENTO,   \* table MONITORAMENTO
    ALMOXAFIRE,      \* table ALMOXAFIRE
    EPIS,            \* table EPIS
    EPIS_ITENS,      \* table EPIS_ITENS
    CONSOLIDADO,     \* table CONSOLIDADO
    autenticado,     \* history: the identity of the last successful login
    maior_id,        \* history: per gated table, the largest id an insert returned
    processo,        \* the processes inserting side by side: where each one is
    trava,           \* the write lock of the storage file: its holder, or 0
    AUDIT_LOGS,      \* table AUDIT_LOGS, in insertion order
    relogio,         \* datetime.utcnow(), as a logical clock
    origem,          \* history: for each stored gated row, what its insert assigned
                     \* and whether the account that made it was deleted since
    ultimo,          \* history: the call in progress, its arguments and what it returned
    auditoria_disponivel,  \* environment: whether writes to AUDIT_LOGS succeed
    ambiente,        \* os.environ: the registration keys ("" for an unset one)
    esquema,         \* the storage file: for each table its columns ({}: no table)
    configuracoes_api,  \* table configuracoes_api
    pagina,          \* ConsultasPage: the search box, the cache, the list shown
    tempo            \* time(), in seconds

vars == <<usuarios, CurrentUser, registros, MONITORAMENTO, ALMOXAFIRE, EPIS,
          EPIS_ITENS, CONSOLIDADO, AUDIT_LOGS, relogio, origem, ultimo,
          auditoria_disponivel, autenticado, maior_id, processo, trava,
          ambiente, esquema, configuracoes_api, pagina, tempo>>

\* What the calls on the gated tables and the accounts leave alone.
fora_das_tabelas == <<ambiente, esquema, configuracoes_api, pagina, tempo>>

tabelas == <<registros, MONITORAMENTO, ALMOXAFIRE, EPIS, EPIS_ITENS>>

Max(S) == CHOOSE m \in S : \A x \in S : x <= m

\* INTEGER PRIMARY KEY of SQLite (no AUTOINCREMENT keyword): largest rowid + 1.
NextId(tab) == IF tab = {} THEN 1 ELSE Max({r.id : r \in tab}) + 1

Row(tab, id) == CHOOSE r \in tab : r.id = id

Has(tab, id) == \E r \in tab : r.id = id


(* ------------------------------ audit log ------------------------------ *)

t_input     == <<"i", "n", "p", "u", "t">>
t_output    == <<"o", "u", "t", "p", "u", "t">>
t_consulta  == <<"c", "o", "n", "s", "u", "l", "t", "a">>
t_alteracao_acento == <<"a", "l", "t", "e", "r", "a", "ç", "ã", "o">>
t_alteracao == <<"a", "l", "t", "e", "r", "a", "c", "a", "o">>

Bloqueado     == <<"B", "l", "o", "q">>
Monitoramento == <<"M", "o", "n", "i", "t">>
Almoxarifado  == <<"A", "l", "m", "o", "x">>
EPIs          == <<"E", "P", "I", "s">>
Consultas     == <<"C", "o", "n", "s">>

\* usuario=_CurrentUser.username if _CurrentUser.username else None
dono_atual == IF CurrentUser.username # <<>> THEN CurrentUser.username ELSE NoneStr

\* A normalisation that only lower-cases and trims.
tipo_sem_normalizar(tipo) == lower(strip(IF tipo = NoneStr THEN <<>> ELSE tipo))

\* The tipo salvar_auditoria stores for a raw tipo that is not blank.
tipo_normalizado(tipo) ==
    LET t1 == lower(strip(OrEmpty(tipo)))
        t2 == IF t1 \notin {t_input, t_output, t_consulta, t_alteracao_acento, t_alteracao}
              THEN t_consulta ELSE t1
    IN  IF t2 = t_alteracao THEN t_alteracao_acento ELSE t2

\* A salvar_auditoria that keeps only the newest row.
salvar_auditoria_sobrescrevendo(log, transacao, tipo, ok) ==
    IF strip(OrEmpty(transacao)) = <<>> \/ lower(strip(OrEmpty(tipo))) = <<>>
    THEN [ret |-> "raise", rid |-> 0, log |-> log]
    ELSE IF ok
    THEN [ret |-> "id", rid |-> 1,
          log |-> <<[id |-> 1, usuario |-> dono_atual,
                     transacao |-> strip(OrEmpty(transacao)),
                     tipo |-> tipo_normalizado(tipo), created_at |-> relogio]>>]
    ELSE [ret |-> "id", rid |-> 0, log |-> log]

\* salvar_auditoria on the audit table log; ok: whether add/commit succeeds.
\* ret is "raise", or the id of the new row, or 0 when the write failed.
salvar_auditoria(log, transacao, tipo, ok) ==
    LET tr == strip(OrEmpty(transacao))
        tp == lower(strip(OrEmpty(tipo)))
    IN  IF tr = <<>> \/ tp = <<>>
        THEN [ret |-> "raise", rid |-> 0, log |-> log]
        ELSE IF ok
        THEN [ret |-> "id", rid |-> Len(log) + 1,
              log |-> Append(log, [id |-> Len(log) + 1,
                                   usuario |-> dono_atual,
                                   transacao |-> tr,
                                   tipo |-> tipo_normalizado(tipo),
                                   created_at |-> relogio])]
        ELSE [ret |-> "id", rid |-> 0, log |-> log]

\* try: salvar_auditoria(...) except Exception: pass -- as the CRUD functions call it.
auditar(log, transacao, tipo, ok) == salvar_auditoria(log, transacao, tipo, ok).log

(* ------------------------- users and the session ----------------------- *)

Anonimo == [username |-> NoneStr, user_id |-> 0, tipo |-> "<None>"]

\* os.getenv of the registration keys; "" stands for an unset variable.
getenv(nome) == ambiente[nome]

\* An a or b that never takes b.
Or_sem_alternativa(a, b) == a

\* a or b of Python on strings.
Or(a, b) == IF a # "" THEN a ELSE b

hash_senha(senha) == <<"bcrypt", senha>>

verificar_senha(senha, senha_hash) == senha_hash = hash_senha(senha)

PorUsername(tab, username) == {u \in tab : u.username = username}

criar_usuario_sem_chave(tab, username, senha, tipo, api_key) ==
    LET tp == IF tipo = "ADM" THEN "ADMINISTRADOR" ELSE tipo
        nome == strip(username)
        falha == [ret |-> "raise", rid |-> 0, tab |-> tab]
    IN  IF tp \notin {"ADMINISTRADOR", "USUARIO"} THEN falha
        ELSE IF nome = <<>> \/ senha = "" THEN falha
        ELSE IF PorUsername(tab, nome) # {} THEN falha
        ELSE [ret |-> "id", rid |-> NextId(tab),
              tab |-> tab \cup {[id |-> NextId(tab), username |-> nome,
                                 senha_hash |-> hash_senha(senha), tipo |-> tp]}]

criar_usuario(tab, username, senha, tipo, api_key) ==
    LET tp == IF tipo = "ADM" THEN "ADMINISTRADOR" ELSE tipo
        key_user_env  == Or(getenv("REGISTRO_API_KEY_USUARIO"), getenv("REGISTRO_API_KEY"))
        key_admin_env == Or(getenv("REGISTRO_API_KEY_ADMINISTRADOR"), getenv("REGISTRO_API_KEY_ADM"))
        nome == strip(username)
        falha == [ret |-> "raise", rid |-> 0, tab |-> tab]
    IN  IF tp = "ADMINISTRADOR" /\ (key_admin_env = "" \/ api_key # key_admin_env) THEN falha
        ELSE IF tp = "USUARIO" /\ (key_user_env = "" \/ api_key # key_user_env) THEN falha
        ELSE IF tp \notin {"ADMINISTRADOR", "USUARIO"} THEN falha
        ELSE IF nome = <<>> \/ senha = "" THEN falha
        ELSE IF PorUsername(tab, nome) # {} THEN falha
        ELSE [ret |-> "id", rid |-> NextId(tab),
              tab |-> tab \cup {[id |-> NextId(tab), username |-> nome,
                                 senha_hash |-> hash_senha(senha), tipo |-> tp]}]

autenticar_usuario_sem_verificar(username, senha) ==
    LET achados == PorUsername(usuarios, username)
    IN  IF achados = {} THEN [ret |-> "False", cur |-> CurrentUser]
        ELSE LET user == CHOOSE u \in achados : TRUE
             IN  IF ~verificar_senha(senha, user.senha_hash)
                 THEN [ret |-> "False",
                       cur |-> [username |-> username, user_id |-> user.id,
                                tipo |-> user.tipo]]
                 ELSE [ret |-> "True",
                       cur |-> [username |-> username, user_id |-> user.id,
                                tipo |-> user.tipo]]

autenticar_usuario(username, senha) ==
    LET achados == PorUsername(usuarios, username)
    IN  IF achados = {} THEN [ret |-> "False", cur |-> CurrentUser]
        ELSE LET user == CHOOSE u \in achados : TRUE
             IN  IF ~verificar_senha(senha, user.senha_hash)
                 THEN [ret |-> "False", cur |-> CurrentUser]
                 ELSE [ret |-> "True",
                       cur |-> [username |-> username, user_id |-> user.id, tipo |-> user.tipo]]

assert_admin_de_quem_entrou == CurrentUser.tipo # "<None>"

\* _assert_admin raises unless this holds.
assert_admin == CurrentUser.tipo = "ADMINISTRADOR"

\* session.delete(user) also deletes user.registros (cascade="all,delete-orphan"):
\* the registros rows whose usuario_id is the user's id.
excluir_usuario(tab, regs, username) ==
    LET achados == PorUsername(tab, username)
        user == CHOOSE u \in achados : TRUE
    IN  IF ~assert_admin THEN [ret |-> "raise", tab |-> tab, regs |-> regs]
        ELSE IF achados = {} THEN [ret |-> "False", tab |-> tab, regs |-> regs]
        ELSE IF user.tipo # "USUARIO" THEN [ret |-> "raise", tab |-> tab, regs |-> regs]
        ELSE [ret |-> "True", tab |-> tab \ {user},
              regs |-> {r \in regs : r.usuario_id # user.id}]

\* ORDER BY username ASC; the usernames of the model, in that order.
Usernames == <<<<"a", "l", "i", "c", "e">>, <<"b", "o", "b">>>>

RECURSIVE order_by_username_asc(_)
order_by_username_asc(rows) ==
    IF rows = {} THEN <<>>
    ELSE LET pos(u) == CHOOSE i \in 1..Len(Usernames) : Usernames[i] = u.username
             r == CHOOSE x \in rows : \A y \in rows : pos(x) <= pos(y)
         IN  <<r>> \o order_by_username_asc(rows \ {r})

\* tipo is "" for None.  The dicts carry no password hash (and, here, no
\* created_at: the model's accounts have none).
listar_usuarios(tab, tipo) ==
    LET us == order_by_username_asc({u \in tab : tipo # "" => u.tipo = tipo})
    IN  IF ~assert_admin THEN [ret |-> "raise", rows |-> <<>>]
        ELSE [ret |-> "rows",
              rows |-> [i \in 1..Len(us) |->
                          [id |-> us[i].id, username |-> us[i].username,
                           tipo |-> us[i].tipo]]]

redefinir_senha_usuario_de_qualquer_um(tab, username, nova_senha) ==
    LET achados == PorUsername(tab, username)
        user == CHOOSE u \in achados : TRUE
    IN  IF nova_senha = "" THEN [ret |-> "raise", tab |-> tab]
        ELSE IF ~assert_admin THEN [ret |-> "raise", tab |-> tab]
        ELSE IF achados = {} THEN [ret |-> "False", tab |-> tab]
        ELSE [ret |-> "True",
              tab |-> (tab \ {user})
                      \cup {[user EXCEPT !.senha_hash = hash_senha(nova_senha)]}]

redefinir_senha_usuario(tab, username, nova_senha) ==
    LET achados == PorUsername(tab, username)
        user == CHOOSE u \in achados : TRUE
    IN  IF nova_senha = "" THEN [ret |-> "raise", tab |-> tab]
        ELSE IF ~assert_admin THEN [ret |-> "raise", tab |-> tab]
        ELSE IF achados = {} THEN [ret |-> "False", tab |-> tab]
        ELSE IF user.tipo = "ADMINISTRADOR" /\ username # CurrentUser.username
        THEN [ret |-> "raise", tab |-> tab]
        ELSE [ret |-> "True",
              tab |-> (tab \ {user})
                      \cup {[user EXCEPT !.senha_hash = hash_senha(nova_senha)]}]

(* ----------------------- Blocked-Item (registros) ---------------------- *)

\* A salvar_registro that records no author.
salvar_registro_sem_autor(tab, log, item, quantidade, motivo, setor_responsavel, ok) ==
    [ret |-> "id", rid |-> NextId(tab),
     tab |-> tab \cup {[id |-> NextId(tab), item |-> item, quantidade |-> quantidade,
                        motivo |-> motivo, setor_responsavel |-> setor_responsavel,
                        usuario |-> NoneStr, usuario_id |-> CurrentUser.user_id,
                        created_at |-> relogio]},
     log |-> auditar(log, Bloqueado, t_input, ok)]

salvar_registro(tab, log, item, quantidade, motivo, setor_responsavel, ok) ==
    LET modelo == [id |-> NextId(tab), item |-> item, quantidade |-> quantidade,
                   motivo |-> motivo, setor_responsavel |-> setor_responsavel,
                   usuario |-> dono_atual, usuario_id |-> CurrentUser.user_id,
                   created_at |-> relogio]
    IN  IF NoneInt \in {item, quantidade} \/ NoneStr \in {motivo, setor_responsavel}
        THEN \* NOT NULL: the commit raises IntegrityError
             [ret |-> "raise", rid |-> 0, tab |-> tab, log |-> log]
        ELSE [ret |-> "id", rid |-> modelo.id, tab |-> tab \cup {modelo},
              log |-> auditar(log, Bloqueado, t_input, ok)]

\* An editar_registro without the permission test.
editar_registro_sem_permissao(tab, log, registro_id, quantidade, setor_responsavel, ok) ==
    IF ~Has(tab, registro_id) THEN [ret |-> "False", tab |-> tab, log |-> log]
    ELSE LET reg == Row(tab, registro_id)
             r1 == IF quantidade # NoneInt THEN [reg EXCEPT !.quantidade = quantidade] ELSE reg
             r2 == IF setor_responsavel # NoneStr
                   THEN [r1 EXCEPT !.setor_responsavel = setor_responsavel] ELSE r1
             alterado == quantidade # NoneInt \/ setor_responsavel # NoneStr
         IN  IF alterado
             THEN [ret |-> "True", tab |-> (tab \ {reg}) \cup {r2},
                   log |-> auditar(log, Bloqueado, t_alteracao_acento, ok)]
             ELSE [ret |-> "False", tab |-> tab, log |-> log]

\* An editar_registro that makes the editor the author of the row.
editar_registro_assumindo_autoria(tab, log, registro_id, quantidade, setor_responsavel, ok) ==
    IF ~Has(tab, registro_id) THEN [ret |-> "False", tab |-> tab, log |-> log]
    ELSE LET reg == Row(tab, registro_id)
             r1 == IF quantidade # NoneInt THEN [reg EXCEPT !.quantidade = quantidade] ELSE reg
             r2 == IF setor_responsavel # NoneStr
                   THEN [r1 EXCEPT !.setor_responsavel = setor_responsavel] ELSE r1
             alterado == quantidade # NoneInt \/ setor_responsavel # NoneStr
         IN  IF CurrentUser.tipo # "ADMINISTRADOR" /\ reg.usuario # CurrentUser.username
             THEN [ret |-> "False", tab |-> tab, log |-> log]
             ELSE IF alterado
             THEN [ret |-> "True",
                   tab |-> (tab \ {reg}) \cup {[r2 EXCEPT !.usuario = dono_atual]},
                   log |-> auditar(log, Bloqueado, t_alteracao_acento, ok)]
             ELSE [ret |-> "False", tab |-> tab, log |-> log]

editar_registro(tab, log, registro_id, quantidade, setor_responsavel, ok) ==
    IF ~Has(tab, registro_id) THEN [ret |-> "False", tab |-> tab, log |-> log]
    ELSE LET reg == Row(tab, registro_id)
             r1 == IF quantidade # NoneInt THEN [reg EXCEPT !.quantidade = quantidade] ELSE reg
             r2 == IF setor_responsavel # NoneStr
                   THEN [r1 EXCEPT !.setor_responsavel = setor_responsavel] ELSE r1
             alterado == quantidade # NoneInt \/ setor_responsavel # NoneStr
         IN  IF CurrentUser.tipo # "ADMINISTRADOR" /\ reg.usuario # CurrentUser.username
             THEN [ret |-> "False", tab |-> tab, log |-> log]
             ELSE IF alterado
             THEN [ret |-> "True", tab |-> (tab \ {reg}) \cup {r2},
                   log |-> auditar(log, Bloqueado, t_alteracao_acento, ok)]
             ELSE [ret |-> "False", tab |-> tab, log |-> log]

\* An excluir_registro whose delete is undone, and which raises, when the
\* audit write fails.
excluir_registro_auditoria_bloqueante(tab, log, registro_id, ok) ==
    IF ~Has(tab, registro_id) THEN [ret |-> "False", tab |-> tab, log |-> log]
    ELSE LET reg == Row(tab, registro_id)
         IN  IF CurrentUser.tipo # "ADMINISTRADOR" /\ reg.usuario # CurrentUser.username
             THEN [ret |-> "False", tab |-> tab, log |-> log]
             ELSE IF ok
             THEN [ret |-> "True", tab |-> tab \ {reg},
                   log |-> auditar(log, Bloqueado, t_alteracao_acento, ok)]
             ELSE [ret |-> "raise", tab |-> tab, log |-> log]

\* An excluir_registro that raises when permission is denied.
excluir_registro_negando_com_erro(tab, log, registro_id, ok) ==
    IF ~Has(tab, registro_id) THEN [ret |-> "False", tab |-> tab, log |-> log]
    ELSE LET reg == Row(tab, registro_id)
         IN  IF CurrentUser.tipo # "ADMINISTRADOR" /\ reg.usuario # CurrentUser.username
             THEN [ret |-> "raise", tab |-> tab, log |-> log]
             ELSE [ret |-> "True", tab |-> tab \ {reg},
                   log |-> auditar(log, Bloqueado, t_alteracao_acento, ok)]

excluir_registro(tab, log, registro_id, ok) ==
    IF ~Has(tab, registro_id) THEN [ret |-> "False", tab |-> tab, log |-> log]
    ELSE LET reg == Row(tab, registro_id)
         IN  IF CurrentUser.tipo # "ADMINISTRADOR" /\ reg.usuario # CurrentUser.username
             THEN [ret |-> "False", tab |-> tab, log |-> log]
             ELSE [ret |-> "True", tab |-> tab \ {reg},
                   log |-> auditar(log, Bloqueado, t_alteracao_acento, ok)]

\* ORDER BY created_at DESC of a set of rows.
RECURSIVE order_by_created_at_desc(_)
order_by_created_at_desc(rows) ==
    IF rows = {} THEN <<>>
    ELSE LET r == CHOOSE x \in rows : \A y \in rows : y.created_at <= x.created_at
         IN  <<r>> \o order_by_created_at_desc(rows \ {r})

\* The function returns inside the with block: the salvar_auditoria call that
\* follows it is never reached.
consultar_registros_por_item(tab, log, item) ==
    IF item = BadInt \/ item <= 0 THEN [ret |-> "raise", rows |-> <<>>, log |-> log]
    ELSE LET regs == order_by_created_at_desc({r \in tab : r.item = item})
         IN  [ret |-> "rows",
              rows |-> [i \in 1..Len(regs) |->
                          [id |-> regs[i].id, item |-> regs[i].item,
                           quantidade |-> regs[i].quantidade, motivo |-> regs[i].motivo,
                           setor_responsavel |-> regs[i].setor_responsavel,
                           usuario |-> regs[i].usuario,
                           created_at |-> regs[i].created_at]],
              log |-> log]


(* ------------------------ Monitoring (MONITORAMENTO) ------------------- *)

\* int(x) of Python raises TypeError for None and ValueError for a non-number.
int_falha(x) == x = NoneInt \/ x = BadInt

salvar_monitoramento(tab, log, onda, carga, container, responsavel, setor, observacao, ok) ==
    LET onda_n == strip(OrEmpty(onda))
        carga_n == strip(OrEmpty(carga))
        container_n == strip(OrEmpty(container))
        responsavel_n == upper(strip(OrEmpty(responsavel)))
        setor_n == strip(OrEmpty(setor))
        observacao_n == IF observacao = <<>> THEN NoneStr ELSE observacao
        obj == [id |-> NextId(tab), onda |-> onda_n, carga |-> carga_n,
                container |-> container_n, responsavel |-> responsavel_n,
                setor |-> setor_n, observacao |-> observacao_n,
                usuario |-> dono_atual, created_at |-> relogio]
    IN  IF <<>> \in {onda_n, carga_n, container_n, responsavel_n, setor_n}
        THEN [ret |-> "raise", rid |-> 0, tab |-> tab, log |-> log]
        ELSE [ret |-> "id", rid |-> obj.id, tab |-> tab \cup {obj},
              log |-> auditar(log, Monitoramento, t_input, ok)]

editar_monitoramento(tab, log, monitoramento_id, responsavel, setor, observacao, ok) ==
    IF ~Has(tab, monitoramento_id) THEN [ret |-> "False", tab |-> tab, log |-> log]
    ELSE LET reg == Row(tab, monitoramento_id)
             r1 == IF responsavel # NoneStr
                   THEN [reg EXCEPT !.responsavel = upper(strip(responsavel))] ELSE reg
             r2 == IF setor # NoneStr THEN [r1 EXCEPT !.setor = strip(setor)] ELSE r1
             r3 == IF observacao # NoneStr THEN [r2 EXCEPT !.observacao = observacao] ELSE r2
             alterado == responsavel # NoneStr \/ setor # NoneStr \/ observacao # NoneStr
         IN  IF CurrentUser.tipo # "ADMINISTRADOR" /\ reg.usuario # CurrentUser.username
             THEN [ret |-> "False", tab |-> tab, log |-> log]
             ELSE IF alterado
             THEN [ret |-> "True", tab |-> (tab \ {reg}) \cup {r3},
                   log |-> auditar(log, Monitoramento, t_alteracao_acento, ok)]
             ELSE [ret |-> "False", tab |-> tab, log |-> log]

\* An excluir_monitoramento only the author passes.
excluir_monitoramento_so_autor(tab, log, monitoramento_id, ok) ==
    IF ~Has(tab, monitoramento_id) THEN [ret |-> "False", tab |-> tab, log |-> log]
    ELSE LET reg == Row(tab, monitoramento_id)
         IN  IF reg.usuario # CurrentUser.username
             THEN [ret |-> "False", tab |-> tab, log |-> log]
             ELSE [ret |-> "True", tab |-> tab \ {reg},
                   log |-> auditar(log, Monitoramento, t_alteracao_acento, ok)]

excluir_monitoramento(tab, log, monitoramento_id, ok) ==
    IF ~Has(tab, monitoramento_id) THEN [ret |-> "False", tab |-> tab, log |-> log]
    ELSE LET reg == Row(tab, monitoramento_id)
         IN  IF CurrentUser.tipo # "ADMINISTRADOR" /\ reg.usuario # CurrentUser.username
             THEN [ret |-> "False", tab |-> tab, log |-> log]
             ELSE [ret |-> "True", tab |-> tab \ {reg},
                   log |-> auditar(log, Monitoramento, t_alteracao_acento, ok)]

(* -------------------------- Supply-Room (ALMOXAFIRE) ------------------- *)

\* observacao.strip().upper() if observacao.strip() != "" else None
observacao_upper(observacao) ==
    IF strip(observacao) # <<>> THEN upper(strip(observacao)) ELSE NoneStr

salvar_almoxafire(tab, log, setor, turno, matricula, responsavel, insumo, quantidade, observacao, ok) ==
    LET setor_n == upper(strip(OrEmpty(setor)))
        turno_n == strip(OrEmpty(turno))
        responsavel_n == upper(strip(OrEmpty(responsavel)))
        insumo_n == strip(OrEmpty(insumo))
        observacao_n == IF observacao # NoneStr THEN observacao_upper(observacao) ELSE NoneStr
        obj == [id |-> NextId(tab), setor |-> setor_n, turno |-> turno_n,
                matricula |-> matricula, responsavel |-> responsavel_n,
                insumo |-> insumo_n, quantidade |-> quantidade,
                observacao |-> observacao_n, usuario |-> dono_atual,
                created_at |-> relogio]
        falha == [ret |-> "raise", rid |-> 0, tab |-> tab, log |-> log]
    IN  IF int_falha(matricula) \/ int_falha(quantidade) THEN falha
        ELSE IF <<>> \in {setor_n, turno_n, responsavel_n, insumo_n}
                \/ quantidade <= 0 \/ matricula <= 0 THEN falha
        ELSE [ret |-> "id", rid |-> obj.id, tab |-> tab \cup {obj},
              log |-> auditar(log, Almoxarifado, t_input, ok)]

\* An editar_almoxafire that assigns every field, supplied or not.
editar_almoxafire_substituindo_tudo(tab, log, almox_id, setor, turno, matricula, responsavel, insumo, quantidade, observacao, ok) ==
    IF ~Has(tab, almox_id) THEN [ret |-> "False", tab |-> tab, log |-> log]
    ELSE LET reg == Row(tab, almox_id)
             novo == [reg EXCEPT !.setor = upper(strip(OrEmpty(setor))),
                                 !.turno = strip(OrEmpty(turno)),
                                 !.matricula = matricula,
                                 !.responsavel = upper(strip(OrEmpty(responsavel))),
                                 !.insumo = strip(OrEmpty(insumo)),
                                 !.quantidade = quantidade,
                                 !.observacao = IF observacao # NoneStr
                                                THEN observacao_upper(observacao)
                                                ELSE NoneStr]
             alterado == \/ setor # NoneStr \/ turno # NoneStr \/ matricula # NoneInt
                         \/ responsavel # NoneStr \/ insumo # NoneStr
                         \/ quantidade # NoneInt \/ observacao # NoneStr
         IN  IF CurrentUser.tipo # "ADMINISTRADOR" /\ reg.usuario # CurrentUser.username
             THEN [ret |-> "False", tab |-> tab, log |-> log]
             ELSE IF matricula # NoneInt /\ int_falha(matricula)
             THEN [ret |-> "raise", tab |-> tab, log |-> log]
             ELSE IF quantidade # NoneInt /\ (int_falha(quantidade) \/ quantidade <= 0)
             THEN [ret |-> "raise", tab |-> tab, log |-> log]
             ELSE IF alterado
             THEN [ret |-> "True", tab |-> (tab \ {reg}) \cup {novo},
                   log |-> auditar(log, Almoxarifado, t_alteracao_acento, ok)]
             ELSE [ret |-> "False", tab |-> tab, log |-> log]

\* An editar_almoxafire whose session flushes each assignment as it is made:
\* a raise leaves in the store the fields assigned before the failing one.
editar_almoxafire_gravando_antes_do_erro(tab, log, almox_id, setor, turno, matricula, responsavel, insumo, quantidade, observacao, ok) ==
    IF ~Has(tab, almox_id) THEN [ret |-> "False", tab |-> tab, log |-> log]
    ELSE LET reg == Row(tab, almox_id)
             r1 == IF setor # NoneStr THEN [reg EXCEPT !.setor = upper(strip(setor))] ELSE reg
             r2 == IF turno # NoneStr THEN [r1 EXCEPT !.turno = strip(turno)] ELSE r1
             r3 == IF matricula # NoneInt THEN [r2 EXCEPT !.matricula = matricula] ELSE r2
             r4 == IF responsavel # NoneStr
                   THEN [r3 EXCEPT !.responsavel = upper(strip(responsavel))] ELSE r3
             r5 == IF insumo # NoneStr THEN [r4 EXCEPT !.insumo = strip(insumo)] ELSE r4
             r6 == IF quantidade # NoneInt THEN [r5 EXCEPT !.quantidade = quantidade] ELSE r5
             r7 == IF observacao # NoneStr
                   THEN [r6 EXCEPT !.observacao = observacao_upper(observacao)] ELSE r6
             alterado == \/ setor # NoneStr \/ turno # NoneStr \/ matricula # NoneInt
                         \/ responsavel # NoneStr \/ insumo # NoneStr
                         \/ quantidade # NoneInt \/ observacao # NoneStr
         IN  IF CurrentUser.tipo # "ADMINISTRADOR" /\ reg.usuario # CurrentUser.username
             THEN [ret |-> "False", tab |-> tab, log |-> log]
             ELSE IF matricula # NoneInt /\ int_falha(matricula)
             THEN [ret |-> "raise", tab |-> (tab \ {reg}) \cup {r2}, log |-> log]
             ELSE IF quantidade # NoneInt /\ (int_falha(quantidade) \/ quantidade <= 0)
             THEN [ret |-> "raise", tab |-> (tab \ {reg}) \cup {r5}, log |-> log]
             ELSE IF alterado
             THEN [ret |-> "True", tab |-> (tab \ {reg}) \cup {r7},
                   log |-> auditar(log, Almoxarifado, t_alteracao_acento, ok)]
             ELSE [ret |-> "False", tab |-> tab, log |-> log]

\* A raise leaves the with block before session.commit(): the assignments
\* already made to reg are discarded with the session.
editar_almoxafire(tab, log, almox_id, setor, turno, matricula, responsavel, insumo, quantidade, observacao, ok) ==
    IF ~Has(tab, almox_id) THEN [ret |-> "False", tab |-> tab, log |-> log]
    ELSE LET reg == Row(tab, almox_id)
             r1 == IF setor # NoneStr THEN [reg EXCEPT !.setor = upper(strip(setor))] ELSE reg
             r2 == IF turno # NoneStr THEN [r1 EXCEPT !.turno = strip(turno)] ELSE r1
             r3 == IF matricula # NoneInt THEN [r2 EXCEPT !.matricula = matricula] ELSE r2
             r4 == IF responsavel # NoneStr
                   THEN [r3 EXCEPT !.responsavel = upper(strip(responsavel))] ELSE r3
             r5 == IF insumo # NoneStr THEN [r4 EXCEPT !.insumo = strip(insumo)] ELSE r4
             r6 == IF quantidade # NoneInt THEN [r5 EXCEPT !.quantidade = quantidade] ELSE r5
             r7 == IF observacao # NoneStr
                   THEN [r6 EXCEPT !.observacao = observacao_upper(observacao)] ELSE r6
             alterado == \/ setor # NoneStr \/ turno # NoneStr \/ matricula # NoneInt
                         \/ responsavel # NoneStr \/ insumo # NoneStr
                         \/ quantidade # NoneInt \/ observacao # NoneStr
         IN  IF CurrentUser.tipo # "ADMINISTRADOR" /\ reg.usuario # CurrentUser.username
             THEN [ret |-> "False", tab |-> tab, log |-> log]
             ELSE IF matricula # NoneInt /\ int_falha(matricula)
             THEN [ret |-> "raise", tab |-> tab, log |-> log]
             ELSE IF quantidade # NoneInt /\ (int_falha(quantidade) \/ quantidade <= 0)
             THEN [ret |-> "raise", tab |-> tab, log |-> log]
             ELSE IF alterado
             THEN [ret |-> "True", tab |-> (tab \ {reg}) \cup {r7},
                   log |-> auditar(log, Almoxarifado, t_alteracao_acento, ok)]
             ELSE [ret |-> "False", tab |-> tab, log |-> log]

excluir_almoxafire(tab, log, almox_id, ok) ==
    IF ~Has(tab, almox_id) THEN [ret |-> "False", tab |-> tab, log |-> log]
    ELSE LET reg == Row(tab, almox_id)
         IN  IF CurrentUser.tipo # "ADMINISTRADOR" /\ reg.usuario # CurrentUser.username
             THEN [ret |-> "False", tab |-> tab, log |-> log]
             ELSE [ret |-> "True", tab |-> tab \ {reg},
                   log |-> auditar(log, Almoxarifado, t_alteracao_acento, ok)]


(* ------------------------------ PPE (EPIS) ----------------------------- *)

u_PARES == <<"P", "A", "R", "E", "S">>
u_UNID  == <<"U", "N", "I", "D">>

\* try_decimal on None and on a number.
try_decimal(val) == IF val = NoneInt \/ val = BadInt THEN NoneInt ELSE val

\* The EPIS_ITENS rows salvar_epi builds from produtos for header epi_id,
\* ids following prox; products with a blank codigo or produto or a
\* quantidade that is not a positive integer are skipped.
RECURSIVE itens_de_produtos(_, _, _)
itens_de_produtos(produtos, epi_id, prox) ==
    IF produtos = <<>> THEN {}
    ELSE LET p == Head(produtos)
             codigo == strip(p.codigo)
             produto == strip(p.produto)
             quantidade == IF int_falha(p.quantidade) THEN 0 ELSE p.quantidade
             uon == IF p.uon \in {NoneStr, <<>>} THEN p.uon
                    ELSE IF upper(strip(p.uon)) \in {u_PARES, u_UNID}
                    THEN upper(strip(p.uon)) ELSE NoneStr
         IN  IF codigo = <<>> \/ produto = <<>> \/ quantidade <= 0
             THEN itens_de_produtos(Tail(produtos), epi_id, prox)
             ELSE {[id |-> prox, epi_id |-> epi_id, codigo |-> codigo,
                    produto |-> produto, quantidade |-> quantidade, uon |-> uon,
                    valor_unit |-> try_decimal(p.valor_unit),
                    valor_total |-> try_decimal(p.valor_total)]}
                  \cup itens_de_produtos(Tail(produtos), epi_id, prox + 1)

\* data: a day number for a well-formed 'YYYY-MM-DD', BadInt for any other text.
salvar_epi(tab, itens, log, matricula, setor, turno, primeira, data, responsavel, observacao, produtos, ok) ==
    LET setor_norm == upper(strip(OrEmpty(setor)))
        turno_norm == strip(OrEmpty(turno))
        primeira_norm == strip(OrEmpty(primeira))
        observacao_norm == IF observacao # NoneStr /\ observacao # <<>>
                           THEN observacao_upper(observacao) ELSE NoneStr
        cab == [id |-> NextId(tab), matricula |-> matricula, setor |-> setor_norm,
                turno |-> turno_norm, primeira |-> primeira_norm, data_ref |-> data,
                responsavel |-> responsavel, observacao |-> observacao_norm,
                usuario |-> dono_atual, created_at |-> relogio]
        falha == [ret |-> "raise", rid |-> 0, tab |-> tab, itens |-> itens, log |-> log]
    IN  IF int_falha(matricula) \/ int_falha(responsavel) \/ data = BadInt THEN falha
        ELSE IF setor_norm = <<>> \/ turno_norm = <<>> \/ matricula <= 0 \/ responsavel <= 0
        THEN falha
        ELSE [ret |-> "id", rid |-> cab.id, tab |-> tab \cup {cab},
              itens |-> itens \cup itens_de_produtos(produtos, cab.id, NextId(itens)),
              log |-> auditar(log, EPIs, t_input, ok)]

\* An excluir_epi that deletes the header alone.
excluir_epi_sem_cascata(tab, itens, log, epi_id, ok) ==
    IF ~Has(tab, epi_id) THEN [ret |-> "False", tab |-> tab, itens |-> itens, log |-> log]
    ELSE LET reg == Row(tab, epi_id)
         IN  IF CurrentUser.tipo # "ADMINISTRADOR" /\ reg.usuario # CurrentUser.username
             THEN [ret |-> "False", tab |-> tab, itens |-> itens, log |-> log]
             ELSE [ret |-> "True", tab |-> tab \ {reg}, itens |-> itens,
                   log |-> auditar(log, EPIs, t_alteracao_acento, ok)]

\* session.delete(reg) also deletes reg.itens (cascade="all,delete-orphan").
excluir_epi(tab, itens, log, epi_id, ok) ==
    IF ~Has(tab, epi_id) THEN [ret |-> "False", tab |-> tab, itens |-> itens, log |-> log]
    ELSE LET reg == Row(tab, epi_id)
         IN  IF CurrentUser.tipo # "ADMINISTRADOR" /\ reg.usuario # CurrentUser.username
             THEN [ret |-> "False", tab |-> tab, itens |-> itens, log |-> log]
             ELSE [ret |-> "True", tab |-> tab \ {reg},
                   itens |-> {it \in itens : it.epi_id # reg.id},
                   log |-> auditar(log, EPIs, t_alteracao_acento, ok)]

\* ORDER BY id ASC of a set of rows.
RECURSIVE order_by_id_asc(_)
order_by_id_asc(rows) ==
    IF rows = {} THEN <<>>
    ELSE LET r == CHOOSE x \in rows : \A y \in rows : x.id <= y.id
         IN  <<r>> \o order_by_id_asc(rows \ {r})

\* _dec_str(val) or "": the text of a number, "" for None.
dec_str_ou_vazio(val) == IF val = NoneInt THEN <<>> ELSE <<val>>

listar_itens_de_epi(itens, epi_id) ==
    IF int_falha(epi_id) THEN [ret |-> "raise", rows |-> <<>>]
    ELSE LET its == order_by_id_asc({it \in itens : it.epi_id = epi_id})
         IN  [ret |-> "rows",
              rows |-> [i \in 1..Len(its) |->
                          [id |-> its[i].id, codigo |-> its[i].codigo,
                           produto |-> its[i].produto, quantidade |-> its[i].quantidade,
                           uon |-> OrEmpty(its[i].uon),
                           valor_unit |-> dec_str_ou_vazio(its[i].valor_unit),
                           valor_total |-> dec_str_ou_vazio(its[i].valor_total)]]]


(* --------------------------- date-range queries ------------------------ *)

Digitos == <<"0", "1", "2", "3", "4", "5", "6", "7", "8", "9">>

ehDigitos(s) == \A i \in 1..Len(s) : \E d \in 1..10 : Digitos[d] = s[i]

\* int() of a text of digits.
RECURSIVE Numero(_)
Numero(s) ==
    IF s = <<>> THEN 0
    ELSE 10 * Numero(SubSeq(s, 1, Len(s) - 1))
         + (CHOOSE d \in 0..9 : Digitos[d + 1] = s[Len(s)])

bissexto(ano) == ano % 4 = 0 /\ (ano % 100 # 0 \/ ano % 400 = 0)

dias_no_mes(ano, mes) ==
    IF mes = 2 THEN (IF bissexto(ano) THEN 29 ELSE 28)
    ELSE IF mes \in {4, 6, 9, 11} THEN 30 ELSE 31

\* <<ano, mes, dia>> of the digit texts, <<>> when they name no day.
data_de(a, m, d) ==
    IF ~(ehDigitos(a) /\ ehDigitos(m) /\ ehDigitos(d)) THEN <<>>
    ELSE IF Numero(a) < 1 \/ Numero(m) \notin 1..12
            \/ Numero(d) \notin 1..dias_no_mes(Numero(a), Numero(m)) THEN <<>>
    ELSE <<Numero(a), Numero(m), Numero(d)>>

\* date.fromisoformat: <<ano, mes, dia>>, or <<>> for ValueError.  YYYY-MM-DD
\* is accepted by every Python; YYYYMMDD only where basico holds (Python 3.11
\* and later).  Week dates (YYYY-Www-D) are not among the texts the model draws.
date_fromisoformat(texto, basico) ==
    IF Len(texto) = 10 /\ texto[5] = "-" /\ texto[8] = "-"
    THEN data_de(SubSeq(texto, 1, 4), SubSeq(texto, 6, 7), SubSeq(texto, 9, 10))
    ELSE IF Len(texto) = 8 /\ basico
    THEN data_de(SubSeq(texto, 1, 4), SubSeq(texto, 5, 6), SubSeq(texto, 7, 8))
    ELSE <<>>

\* <<hora, minuto, segundo, microsegundo>> of HH, HH:MM or HH:MM:SS, <<>> for
\* any other text (fractions and offsets are not among the texts drawn).
hora_de(t) ==
    LET hh == SubSeq(t, 1, 2)
        mm == SubSeq(t, 4, 5)
        ss == SubSeq(t, 7, 8)
    IN  IF Len(t) \notin {2, 5, 8} THEN <<>>
        ELSE IF Len(t) >= 5 /\ t[3] # ":" THEN <<>>
        ELSE IF Len(t) = 8 /\ t[6] # ":" THEN <<>>
        ELSE IF ~(ehDigitos(hh) /\ ehDigitos(mm) /\ ehDigitos(ss)) THEN <<>>
        ELSE IF Numero(hh) > 23 \/ Numero(mm) > 59 \/ Numero(ss) > 59 THEN <<>>
        ELSE <<Numero(hh), Numero(mm), Numero(ss), 0>>

\* datetime.fromisoformat: <<ano, mes, dia, hora, minuto, segundo,
\* microsegundo>>, or <<>> for ValueError: a date, then nothing or one
\* separator character and a time.
datetime_fromisoformat(texto, basico) ==
    LET n == IF Len(texto) >= 10 /\ texto[5] = "-" THEN 10 ELSE 8
        dia == IF Len(texto) >= n THEN date_fromisoformat(SubSeq(texto, 1, n), basico)
               ELSE <<>>
        resto == SubSeq(texto, n + 1, Len(texto))
    IN  IF dia = <<>> THEN <<>>
        ELSE IF resto = <<>> THEN dia \o <<0, 0, 0, 0>>
        ELSE IF hora_de(Tail(resto)) = <<>> THEN <<>>
        ELSE dia \o hora_de(Tail(resto))

\* a <= b of two dates or two datetimes.
RECURSIVE antes_ou_igual(_, _)
antes_ou_igual(a, b) ==
    IF a = <<>> THEN TRUE
    ELSE IF Head(a) # Head(b) THEN Head(a) < Head(b)
    ELSE antes_ou_igual(Tail(a), Tail(b))

\* dt.replace(hour=.., minute=.., second=..) and with microsecond=.. too.
replace_hms(dt, h, m, s) == <<dt[1], dt[2], dt[3], h, m, s, dt[7]>>

replace_hmsu(dt, h, m, s, u) == <<dt[1], dt[2], dt[3], h, m, s, u>>

\* if x: of an Optional[str].
informado(texto) == texto # NoneStr /\ texto # <<>>

\* created_at.isoformat(timespec="seconds"): the microseconds are dropped.
isoformat_seconds(dt) == SubSeq(dt, 1, 6)

\* ORDER BY chave DESC of a set of [chave, row] pairs, the keys being dates or
\* datetimes (or one after the other).
RECURSIVE order_by_desc(_)
order_by_desc(pares) ==
    IF pares = {} THEN <<>>
    ELSE LET p == CHOOSE x \in pares : \A y \in pares : antes_ou_igual(y.chave, x.chave)
         IN  <<p.row>> \o order_by_desc(pares \ {p})

\* The messages of the ValueError a range query raises.
erro_data_ini == "data_ini invalida (use YYYY-MM-DD)"

erro_data_fim == "data_fim invalida (use YYYY-MM-DD)"

erro_periodo == "Periodo invalido: data inicial maior que a final"

erro_matricula == "Matricula invalida (use numero)"

\* lower(motivo) LIKE '%sub%' for a sub without wildcard characters.
like_contem(s, sub) ==
    \E i \in 1..(Len(s) + 1) :
        i + Len(sub) - 1 <= Len(s) /\ SubSeq(s, i, i + Len(sub) - 1) = sub

consultar_registros_filtrados(tab, data_ini, data_fim, motivo_sub, basico) ==
    LET dt_ini == datetime_fromisoformat(data_ini, basico)
        lido == datetime_fromisoformat(data_fim, basico)
        dt_fim == IF Len(data_fim) = 10 THEN replace_hms(lido, 23, 59, 59) ELSE lido
        regs == order_by_desc({[chave |-> r.created_at, row |-> r] : r \in
                  {r \in tab :
                     /\ informado(data_ini) => antes_ou_igual(dt_ini, r.created_at)
                     /\ informado(data_fim) => antes_ou_igual(r.created_at, dt_fim)
                     /\ informado(motivo_sub) =>
                            like_contem(lower(r.motivo), lower(motivo_sub))}})
    IN  IF informado(data_ini) /\ dt_ini = <<>> THEN [ret |-> erro_data_ini, rows |-> <<>>]
        ELSE IF informado(data_fim) /\ lido = <<>>
        THEN [ret |-> erro_data_fim, rows |-> <<>>]
        ELSE [ret |-> "rows",
              rows |-> [i \in 1..Len(regs) |->
                          [id |-> regs[i].id, item |-> regs[i].item,
                           quantidade |-> regs[i].quantidade, motivo |-> regs[i].motivo,
                           setor_responsavel |-> regs[i].setor_responsavel,
                           usuario |-> regs[i].usuario,
                           created_at |-> isoformat_seconds(regs[i].created_at)]]]

consultar_almoxafire(tab, turno, data_ini, data_fim, basico) ==
    LET lido_ini == datetime_fromisoformat(data_ini, basico)
        lido_fim == datetime_fromisoformat(data_fim, basico)
        dt_ini == IF Len(data_ini) = 10 THEN replace_hmsu(lido_ini, 0, 0, 0, 0)
                  ELSE lido_ini
        dt_fim == IF Len(data_fim) = 10 THEN replace_hmsu(lido_fim, 23, 59, 59, 999999)
                  ELSE lido_fim
        regs == order_by_desc({[chave |-> r.created_at, row |-> r] : r \in
                  {r \in tab :
                     /\ informado(turno) => r.turno = turno
                     /\ informado(data_ini) => antes_ou_igual(dt_ini, r.created_at)
                     /\ informado(data_fim) => antes_ou_igual(r.created_at, dt_fim)}})
    IN  IF informado(data_ini) /\ lido_ini = <<>> THEN [ret |-> erro_data_ini, rows |-> <<>>]
        ELSE IF informado(data_fim) /\ lido_fim = <<>>
        THEN [ret |-> erro_data_fim, rows |-> <<>>]
        ELSE IF informado(data_ini) /\ informado(data_fim) /\ ~antes_ou_igual(dt_ini, dt_fim)
        THEN [ret |-> erro_periodo, rows |-> <<>>]
        ELSE [ret |-> "rows",
              rows |-> [i \in 1..Len(regs) |->
                          [id |-> regs[i].id, setor |-> regs[i].setor,
                           turno |-> regs[i].turno, matricula |-> regs[i].matricula,
                           responsavel |-> regs[i].responsavel,
                           insumo |-> regs[i].insumo, quantidade |-> regs[i].quantidade,
                           observacao |-> OrEmpty(regs[i].observacao),
                           usuario |-> regs[i].usuario,
                           created_at |-> isoformat_seconds(regs[i].created_at)]]]

\* The dict of one EPIS header, with the number of its items.
epi_dict(r, itens) ==
    [id |-> r.id, matricula |-> r.matricula, setor |-> r.setor, turno |-> r.turno,
     primeira |-> r.primeira, data_ref |-> r.data_ref, responsavel |-> r.responsavel,
     observacao |-> OrEmpty(r.observacao), usuario |-> r.usuario,
     created_at |-> isoformat_seconds(r.created_at),
     item_count |-> Cardinality({it \in itens : it.epi_id = r.id})]

consultar_epis_por_periodo(tab, itens, data_ini, data_fim, basico) ==
    LET di == date_fromisoformat(data_ini, basico)
        df == date_fromisoformat(data_fim, basico)
        regs == order_by_desc({[chave |-> r.data_ref \o r.created_at, row |-> r] : r \in
                  {r \in tab :
                     /\ informado(data_ini) => antes_ou_igual(di, r.data_ref)
                     /\ informado(data_fim) => antes_ou_igual(r.data_ref, df)}})
    IN  IF informado(data_ini) /\ di = <<>> THEN [ret |-> erro_data_ini, rows |-> <<>>]
        ELSE IF informado(data_fim) /\ df = <<>> THEN [ret |-> erro_data_fim, rows |-> <<>>]
        ELSE IF informado(data_ini) /\ informado(data_fim) /\ ~antes_ou_igual(di, df)
        THEN [ret |-> erro_periodo, rows |-> <<>>]
        ELSE [ret |-> "rows",
              rows |-> [i \in 1..Len(regs) |-> epi_dict(regs[i], itens)]]

consultar_epis_por_matricula(tab, itens, matricula, data_ini, data_fim, basico) ==
    LET di == date_fromisoformat(data_ini, basico)
        df == date_fromisoformat(data_fim, basico)
        regs == order_by_desc({[chave |-> r.data_ref \o r.created_at, row |-> r] : r \in
                  {r \in tab :
                     /\ r.matricula = matricula
                     /\ informado(data_ini) => antes_ou_igual(di, r.data_ref)
                     /\ informado(data_fim) => antes_ou_igual(r.data_ref, df)}})
    IN  IF int_falha(matricula) THEN [ret |-> erro_matricula, rows |-> <<>>]
        ELSE IF informado(data_ini) /\ di = <<>> THEN [ret |-> erro_data_ini, rows |-> <<>>]
        ELSE IF informado(data_fim) /\ df = <<>> THEN [ret |-> erro_data_fim, rows |-> <<>>]
        ELSE IF informado(data_ini) /\ informado(data_fim) /\ ~antes_ou_igual(di, df)
        THEN [ret |-> erro_periodo, rows |-> <<>>]
        ELSE [ret |-> "rows",
              rows |-> [i \in 1..Len(regs) |-> epi_dict(regs[i], itens)]]

\* ORDER BY data_ref DESC, "Descricao Filial" ASC; the branch names of the
\* model are single letters, compared by their place in Filiais.
Filiais == <<<<"A">>, <<"B">>>>

ordem_da_filial(nome) == CHOOSE i \in 1..Len(Filiais) : Filiais[i] = nome

RECURSIVE order_by_data_ref_desc_filial_asc(_)
order_by_data_ref_desc_filial_asc(rows) ==
    IF rows = {} THEN <<>>
    ELSE LET r == CHOOSE x \in rows : \A y \in rows :
                      IF x.data_ref = y.data_ref
                      THEN ordem_da_filial(x.descricao_filial)
                               <= ordem_da_filial(y.descricao_filial)
                      ELSE antes_ou_igual(y.data_ref, x.data_ref)
         IN  <<r>> \o order_by_data_ref_desc_filial_asc(rows \ {r})

consultar_consolidado_por_periodo(tab, data_ini, data_fim, basico) ==
    LET di == date_fromisoformat(data_ini, basico)
        df == date_fromisoformat(data_fim, basico)
        regs == order_by_data_ref_desc_filial_asc(
                  {r \in tab :
                     /\ informado(data_ini) => antes_ou_igual(di, r.data_ref)
                     /\ informado(data_fim) => antes_ou_igual(r.data_ref, df)})
    IN  IF informado(data_ini) /\ di = <<>> THEN [ret |-> erro_data_ini, rows |-> <<>>]
        ELSE IF informado(data_fim) /\ df = <<>> THEN [ret |-> erro_data_fim, rows |-> <<>>]
        ELSE [ret |-> "rows",
              rows |-> [i \in 1..Len(regs) |->
                          [data_ref |-> regs[i].data_ref, arm |-> regs[i].arm_,
                           descricao_filial |-> regs[i].descricao_filial]]]

(* ------------------------------ history -------------------------------- *)

Ids(tab) == {r.id : r \in tab}

\* The gated rows of the store, as <<table, id>>.
Chaves(reg, mon, alm, epi) ==
    ({"registros"} \X Ids(reg)) \cup ({"MONITORAMENTO"} \X Ids(mon))
    \cup ({"ALMOXAFIRE"} \X Ids(alm)) \cup ({"EPIS"} \X Ids(epi))

Tabela(nome, reg, mon, alm, epi) ==
    CASE nome = "registros"     -> reg
      [] nome = "MONITORAMENTO" -> mon
      [] nome = "ALMOXAFIRE"    -> alm
      [] nome = "EPIS"          -> epi

\* The tables whose rows carry an owner.
Gated == {"registros", "MONITORAMENTO", "ALMOXAFIRE", "EPIS"}

\* The processes that have the storage file open.
Processos == {1, 2}

\* A process that is not inside salvar_registro.
Parado == [pc |-> "fora", q |-> 0, row |-> <<>>, sessao |-> Anonimo]

\* No call in progress: the event loop waits for the next event.
Ocioso == [op |-> "ocioso"]

\* The store and the session, as a call finds them.
Estado == [usuarios |-> usuarios, CurrentUser |-> CurrentUser, registros |-> registros,
           MONITORAMENTO |-> MONITORAMENTO, ALMOXAFIRE |-> ALMOXAFIRE, EPIS |-> EPIS,
           EPIS_ITENS |-> EPIS_ITENS, AUDIT_LOGS |-> AUDIT_LOGS, origem |-> origem,
           maior_id |-> maior_id, CONSOLIDADO |-> CONSOLIDADO, esquema |-> esquema,
           configuracoes_api |-> configuracoes_api, pagina |-> pagina]

\* Whether the audit write of a call succeeds: as the environment has it.
\* A call that does not reach salvar_auditoria (log_ok, the audit table it
\* leaves when the write succeeds, is the table it found) has one outcome.
Oks(log_ok) == IF log_ok # AUDIT_LOGS THEN {auditoria_disponivel} ELSE {TRUE}

\* What every call leaves behind: the clock, the record of the call (with the
\* state it found, antes) and the provenance of the rows now stored.  nova is
\* <<>> or <<key of the row the call inserted>>.  The two guards bound the run
\* (lim.linhas inserts, lim.auditoria audit rows).
Anotar(lim, op, id, args, ret, rid, rows, log_ok, ok, nova) ==
    LET chamou == log_ok # AUDIT_LOGS
    IN  /\ chamou => Len(AUDIT_LOGS) < lim.auditoria
        /\ nova # <<>> => relogio < lim.linhas
        /\ UNCHANGED <<auditoria_disponivel, processo, trava>>
        /\ maior_id' =
              IF nova # <<>> /\ nova[1][2] > maior_id[nova[1][1]]
              THEN [maior_id EXCEPT ![nova[1][1]] = nova[1][2]]
              ELSE maior_id
        /\ autenticado' =
              IF op = "autenticar_usuario" /\ ret = "True"
              THEN LET user == CHOOSE u \in usuarios : u.username = args[1]
                   IN  [username |-> args[1], user_id |-> user.id, tipo |-> user.tipo]
              ELSE autenticado
        /\ relogio' = IF nova # <<>> THEN relogio + 1 ELSE relogio
        /\ ultimo' = [op |-> op, id |-> id, args |-> args, ret |-> ret, rid |-> rid,
                      rows |-> rows,
                      aud |-> IF ~chamou THEN "nao" ELSE IF ok THEN "ok" ELSE "falhou",
                      antes |-> Estado]
        /\ origem' = [k \in Chaves(registros', MONITORAMENTO', ALMOXAFIRE', EPIS') |->
                        IF nova # <<>> /\ k = nova[1]
                        THEN LET row == Row(Tabela(k[1], registros', MONITORAMENTO',
                                                   ALMOXAFIRE', EPIS'), k[2])
                             IN  [por |-> CurrentUser.username, usuario |-> row.usuario,
                                  created_at |-> row.created_at, autor_excluido |-> FALSE]
                        ELSE IF op = "excluir_usuario" /\ ret = "True"
                                /\ origem[k].por = args[1]
                        THEN [origem[k] EXCEPT !.autor_excluido = TRUE]
                        ELSE origem[k]]

\* A call of the core on the gated tables, the accounts or the audit log.
RegistrarAte(lim, op, id, args, ret, rid, rows, log_ok, ok, nova) ==
    /\ Anotar(lim, op, id, args, ret, rid, rows, log_ok, ok, nova)
    /\ UNCHANGED <<CONSOLIDADO, fora_das_tabelas>>

Limites == [linhas |-> MaxClock, auditoria |-> MaxAudit]

\* A run of the PPE calls alone: room for the audit row of a delete after
\* MaxEpis inserts.
LimitesEPIS == [linhas |-> MaxEpis, auditoria |-> MaxEpis + 1]

Registrar(op, id, args, ret, rid, rows, log_ok, ok, nova) ==
    RegistrarAte(Limites, op, id, args, ret, rid, rows, log_ok, ok, nova)

Nova(nome, r) == IF r.ret = "id" THEN <<<<nome, r.rid>>>> ELSE <<>>

(* ------------------------------ actions -------------------------------- *)

\* The handler that made the call has used its result and returns to the
\* event loop.
retornar ==
    /\ ultimo # Ocioso
    /\ ultimo' = Ocioso
    /\ UNCHANGED <<auditoria_disponivel, CONSOLIDADO, autenticado, maior_id, processo,
                   trava, fora_das_tabelas>>
    /\ UNCHANGED <<usuarios, CurrentUser, registros, MONITORAMENTO, ALMOXAFIRE, EPIS,
                   EPIS_ITENS, AUDIT_LOGS, relogio, origem>>

do_salvar_auditoria(transacao, tipo) ==
    \E ok \in Oks(salvar_auditoria(AUDIT_LOGS, transacao, tipo, TRUE).log) :
    LET r == salvar_auditoria(AUDIT_LOGS, transacao, tipo, ok)
        r_ok == salvar_auditoria(AUDIT_LOGS, transacao, tipo, TRUE)
    IN  /\ AUDIT_LOGS' = r.log
        /\ UNCHANGED <<usuarios, CurrentUser, registros, MONITORAMENTO, ALMOXAFIRE, EPIS,
                       EPIS_ITENS>>
        /\ Registrar("salvar_auditoria", 0, <<transacao, tipo>>, r.ret, r.rid, <<>>,
                     r_ok.log, ok, <<>>)

do_criar_usuario(username, senha, tipo, api_key) ==
    LET r == criar_usuario(usuarios, username, senha, tipo, api_key)
    IN  /\ usuarios' = r.tab
        /\ UNCHANGED <<CurrentUser, registros, MONITORAMENTO, ALMOXAFIRE, EPIS,
                       EPIS_ITENS, AUDIT_LOGS>>
        /\ Registrar("criar_usuario", 0, <<username, senha, tipo, api_key>>,
                     r.ret, r.rid, <<>>, AUDIT_LOGS, TRUE, <<>>)

do_autenticar_usuario(username, senha) ==
    LET r == autenticar_usuario(username, senha)
    IN  /\ CurrentUser' = r.cur
        /\ UNCHANGED <<usuarios, registros, MONITORAMENTO, ALMOXAFIRE, EPIS,
                       EPIS_ITENS, AUDIT_LOGS>>
        /\ Registrar("autenticar_usuario", 0, <<username, senha>>, r.ret, 0,
                     <<>>, AUDIT_LOGS, TRUE, <<>>)

do_excluir_usuario(username) ==
    LET r == excluir_usuario(usuarios, registros, username)
    IN  /\ usuarios' = r.tab
        /\ registros' = r.regs
        /\ UNCHANGED <<CurrentUser, MONITORAMENTO, ALMOXAFIRE, EPIS, EPIS_ITENS,
                       AUDIT_LOGS>>
        /\ Registrar("excluir_usuario", 0, <<username>>, r.ret, 0, <<>>, AUDIT_LOGS,
                     TRUE, <<>>)

do_listar_usuarios(tipo) ==
    LET r == listar_usuarios(usuarios, tipo)
    IN  /\ UNCHANGED <<usuarios, CurrentUser, registros, MONITORAMENTO, ALMOXAFIRE,
                       EPIS, EPIS_ITENS, AUDIT_LOGS>>
        /\ Registrar("listar_usuarios", 0, <<tipo>>, r.ret, 0, r.rows, AUDIT_LOGS,
                     TRUE, <<>>)

do_redefinir_senha_usuario(username, nova_senha) ==
    LET r == redefinir_senha_usuario(usuarios, username, nova_senha)
    IN  /\ usuarios' = r.tab
        /\ UNCHANGED <<CurrentUser, registros, MONITORAMENTO, ALMOXAFIRE, EPIS,
                       EPIS_ITENS, AUDIT_LOGS>>
        /\ Registrar("redefinir_senha_usuario", 0, <<username, nova_senha>>, r.ret, 0,
                     <<>>, AUDIT_LOGS, TRUE, <<>>)

do_salvar_registro(lim, item, quantidade, motivo, setor_responsavel) ==
    \E ok \in Oks(salvar_registro(registros, AUDIT_LOGS, item, quantidade, motivo,
                                  setor_responsavel, TRUE).log) :
    LET r == salvar_registro(registros, AUDIT_LOGS, item, quantidade, motivo,
                             setor_responsavel, ok)
        r_ok == salvar_registro(registros, AUDIT_LOGS, item, quantidade, motivo,
                                setor_responsavel, TRUE)
    IN  /\ registros' = r.tab
        /\ AUDIT_LOGS' = r.log
        /\ UNCHANGED <<usuarios, CurrentUser, MONITORAMENTO, ALMOXAFIRE, EPIS, EPIS_ITENS>>
        /\ RegistrarAte(lim, "salvar_registro", 0,
                        <<item, quantidade, motivo, setor_responsavel>>,
                        r.ret, r.rid, <<>>, r_ok.log, ok, Nova("registros", r))

do_editar_registro(registro_id, quantidade, setor_responsavel) ==
    \E ok \in Oks(editar_registro(registros, AUDIT_LOGS, registro_id, quantidade,
                                  setor_responsavel, TRUE).log) :
    LET r == editar_registro(registros, AUDIT_LOGS, registro_id, quantidade,
                             setor_responsavel, ok)
        r_ok == editar_registro(registros, AUDIT_LOGS, registro_id, quantidade,
                                setor_responsavel, TRUE)
    IN  /\ registros' = r.tab
        /\ AUDIT_LOGS' = r.log
        /\ UNCHANGED <<usuarios, CurrentUser, MONITORAMENTO, ALMOXAFIRE, EPIS, EPIS_ITENS>>
        /\ Registrar("editar_registro", registro_id, <<quantidade, setor_responsavel>>,
                     r.ret, 0, <<>>, r_ok.log, ok, <<>>)

do_excluir_registro(lim, registro_id) ==
    \E ok \in Oks(excluir_registro(registros, AUDIT_LOGS, registro_id, TRUE).log) :
    LET r == excluir_registro(registros, AUDIT_LOGS, registro_id, ok)
        r_ok == excluir_registro(registros, AUDIT_LOGS, registro_id, TRUE)
    IN  /\ registros' = r.tab
        /\ AUDIT_LOGS' = r.log
        /\ UNCHANGED <<usuarios, CurrentUser, MONITORAMENTO, ALMOXAFIRE, EPIS, EPIS_ITENS>>
        /\ RegistrarAte(lim, "excluir_registro", registro_id, <<>>, r.ret, 0, <<>>,
                        r_ok.log, ok, <<>>)

do_consultar_registros_por_item(item) ==
    LET r == consultar_registros_por_item(registros, AUDIT_LOGS, item)
    IN  /\ AUDIT_LOGS' = r.log
        /\ UNCHANGED <<usuarios, CurrentUser, registros, MONITORAMENTO, ALMOXAFIRE,
                       EPIS, EPIS_ITENS>>
        /\ Registrar("consultar_registros_por_item", 0, <<item>>, r.ret, 0, r.rows,
                     r.log, TRUE, <<>>)

do_salvar_monitoramento(onda, carga, container, responsavel, setor, observacao) ==
    \E ok \in Oks(salvar_monitoramento(MONITORAMENTO, AUDIT_LOGS, onda, carga, container,
                                       responsavel, setor, observacao, TRUE).log) :
    LET r == salvar_monitoramento(MONITORAMENTO, AUDIT_LOGS, onda, carga, container,
                                  responsavel, setor, observacao, ok)
        r_ok == salvar_monitoramento(MONITORAMENTO, AUDIT_LOGS, onda, carga, container,
                                     responsavel, setor, observacao, TRUE)
    IN  /\ MONITORAMENTO' = r.tab
        /\ AUDIT_LOGS' = r.log
        /\ UNCHANGED <<usuarios, CurrentUser, registros, ALMOXAFIRE, EPIS, EPIS_ITENS>>
        /\ Registrar("salvar_monitoramento", 0,
                     <<onda, carga, container, responsavel, setor, observacao>>,
                     r.ret, r.rid, <<>>, r_ok.log, ok, Nova("MONITORAMENTO", r))

do_editar_monitoramento(monitoramento_id, responsavel, setor, observacao) ==
    \E ok \in Oks(editar_monitoramento(MONITORAMENTO, AUDIT_LOGS, monitoramento_id,
                                       responsavel, setor, observacao, TRUE).log) :
    LET r == editar_monitoramento(MONITORAMENTO, AUDIT_LOGS, monitoramento_id,
                                  responsavel, setor, observacao, ok)
        r_ok == editar_monitoramento(MONITORAMENTO, AUDIT_LOGS, monitoramento_id,
                                     responsavel, setor, observacao, TRUE)
    IN  /\ MONITORAMENTO' = r.tab
        /\ AUDIT_LOGS' = r.log
        /\ UNCHANGED <<usuarios, CurrentUser, registros, ALMOXAFIRE, EPIS, EPIS_ITENS>>
        /\ Registrar("editar_monitoramento", monitoramento_id,
                     <<responsavel, setor, observacao>>, r.ret, 0, <<>>, r_ok.log, ok, <<>>)

do_excluir_monitoramento(monitoramento_id) ==
    \E ok \in Oks(excluir_monitoramento(MONITORAMENTO, AUDIT_LOGS, monitoramento_id,
                                        TRUE).log) :
    LET r == excluir_monitoramento(MONITORAMENTO, AUDIT_LOGS, monitoramento_id, ok)
        r_ok == excluir_monitoramento(MONITORAMENTO, AUDIT_LOGS, monitoramento_id, TRUE)
    IN  /\ MONITORAMENTO' = r.tab
        /\ AUDIT_LOGS' = r.log
        /\ UNCHANGED <<usuarios, CurrentUser, registros, ALMOXAFIRE, EPIS, EPIS_ITENS>>
        /\ Registrar("excluir_monitoramento", monitoramento_id, <<>>, r.ret, 0, <<>>,
                     r_ok.log, ok, <<>>)

do_salvar_almoxafire(setor, turno, matricula, responsavel, insumo, quantidade, observacao) ==
    \E ok \in Oks(salvar_almoxafire(ALMOXAFIRE, AUDIT_LOGS, setor, turno, matricula,
                                    responsavel, insumo, quantidade, observacao,
                                    TRUE).log) :
    LET r == salvar_almoxafire(ALMOXAFIRE, AUDIT_LOGS, setor, turno, matricula,
                               responsavel, insumo, quantidade, observacao, ok)
        r_ok == salvar_almoxafire(ALMOXAFIRE, AUDIT_LOGS, setor, turno, matricula,
                                  responsavel, insumo, quantidade, observacao, TRUE)
    IN  /\ ALMOXAFIRE' = r.tab
        /\ AUDIT_LOGS' = r.log
        /\ UNCHANGED <<usuarios, CurrentUser, registros, MONITORAMENTO, EPIS, EPIS_ITENS>>
        /\ Registrar("salvar_almoxafire", 0,
                     <<setor, turno, matricula, responsavel, insumo, quantidade, observacao>>,
                     r.ret, r.rid, <<>>, r_ok.log, ok, Nova("ALMOXAFIRE", r))

do_editar_almoxafire(almox_id, setor, turno, matricula, responsavel, insumo, quantidade, observacao) ==
    \E ok \in Oks(editar_almoxafire(ALMOXAFIRE, AUDIT_LOGS, almox_id, setor, turno,
                                    matricula, responsavel, insumo, quantidade,
                                    observacao, TRUE).log) :
    LET r == editar_almoxafire(ALMOXAFIRE, AUDIT_LOGS, almox_id, setor, turno, matricula,
                               responsavel, insumo, quantidade, observacao, ok)
        r_ok == editar_almoxafire(ALMOXAFIRE, AUDIT_LOGS, almox_id, setor, turno,
                                  matricula, responsavel, insumo, quantidade,
                                  observacao, TRUE)
    IN  /\ ALMOXAFIRE' = r.tab
        /\ AUDIT_LOGS' = r.log
        /\ UNCHANGED <<usuarios, CurrentUser, registros, MONITORAMENTO, EPIS, EPIS_ITENS>>
        /\ Registrar("editar_almoxafire", almox_id,
                     <<setor, turno, matricula, responsavel, insumo, quantidade, observacao>>,
                     r.ret, 0, <<>>, r_ok.log, ok, <<>>)

do_excluir_almoxafire(almox_id) ==
    \E ok \in Oks(excluir_almoxafire(ALMOXAFIRE, AUDIT_LOGS, almox_id, TRUE).log) :
    LET r == excluir_almoxafire(ALMOXAFIRE, AUDIT_LOGS, almox_id, ok)
        r_ok == excluir_almoxafire(ALMOXAFIRE, AUDIT_LOGS, almox_id, TRUE)
    IN  /\ ALMOXAFIRE' = r.tab
        /\ AUDIT_LOGS' = r.log
        /\ UNCHANGED <<usuarios, CurrentUser, registros, MONITORAMENTO, EPIS, EPIS_ITENS>>
        /\ Registrar("excluir_almoxafire", almox_id, <<>>, r.ret, 0, <<>>, r_ok.log,
                     ok, <<>>)

\* lim: the rows the run may insert and the audit rows it may hold.
do_salvar_epi(lim, matricula, setor, turno, primeira, data, responsavel, observacao, produtos) ==
    \E ok \in Oks(salvar_epi(EPIS, EPIS_ITENS, AUDIT_LOGS, matricula, setor, turno,
                             primeira, data, responsavel, observacao, produtos,
                             TRUE).log) :
    LET r == salvar_epi(EPIS, EPIS_ITENS, AUDIT_LOGS, matricula, setor, turno, primeira,
                        data, responsavel, observacao, produtos, ok)
        r_ok == salvar_epi(EPIS, EPIS_ITENS, AUDIT_LOGS, matricula, setor, turno,
                           primeira, data, responsavel, observacao, produtos, TRUE)
    IN  /\ EPIS' = r.tab
        /\ EPIS_ITENS' = r.itens
        /\ AUDIT_LOGS' = r.log
        /\ UNCHANGED <<usuarios, CurrentUser, registros, MONITORAMENTO, ALMOXAFIRE>>
        /\ RegistrarAte(lim, "salvar_epi", 0,
                     <<matricula, setor, turno, primeira, data, responsavel, observacao,
                       produtos>>,
                     r.ret, r.rid, <<>>, r_ok.log, ok, Nova("EPIS", r))

do_excluir_epi(lim, epi_id) ==
    \E ok \in Oks(excluir_epi(EPIS, EPIS_ITENS, AUDIT_LOGS, epi_id, TRUE).log) :
    LET r == excluir_epi(EPIS, EPIS_ITENS, AUDIT_LOGS, epi_id, ok)
        r_ok == excluir_epi(EPIS, EPIS_ITENS, AUDIT_LOGS, epi_id, TRUE)
    IN  /\ EPIS' = r.tab
        /\ EPIS_ITENS' = r.itens
        /\ AUDIT_LOGS' = r.log
        /\ UNCHANGED <<usuarios, CurrentUser, registros, MONITORAMENTO, ALMOXAFIRE>>
        /\ RegistrarAte(lim, "excluir_epi", epi_id, <<>>, r.ret, 0, <<>>, r_ok.log, ok,
                        <<>>)

do_listar_itens_de_epi(epi_id) ==
    LET r == listar_itens_de_epi(EPIS_ITENS, epi_id)
    IN  /\ UNCHANGED <<usuarios, CurrentUser, registros, MONITORAMENTO, ALMOXAFIRE,
                       EPIS, EPIS_ITENS, AUDIT_LOGS>>
        /\ Registrar("listar_itens_de_epi", epi_id, <<>>, r.ret, 0, r.rows, AUDIT_LOGS,
                     TRUE, <<>>)

do_consultar_registros_filtrados(data_ini, data_fim, motivo_sub, basico) ==
    LET r == consultar_registros_filtrados(registros, data_ini, data_fim, motivo_sub, basico)
    IN  /\ UNCHANGED <<usuarios, CurrentUser, registros, MONITORAMENTO, ALMOXAFIRE,
                       EPIS, EPIS_ITENS, AUDIT_LOGS>>
        /\ Registrar("consultar_registros_filtrados", 0,
                     <<data_ini, data_fim, motivo_sub, basico>>, r.ret, 0, r.rows,
                     AUDIT_LOGS, TRUE, <<>>)

do_consultar_almoxafire(turno, data_ini, data_fim, basico) ==
    LET r == consultar_almoxafire(ALMOXAFIRE, turno, data_ini, data_fim, basico)
    IN  /\ UNCHANGED <<usuarios, CurrentUser, registros, MONITORAMENTO, ALMOXAFIRE,
                       EPIS, EPIS_ITENS, AUDIT_LOGS>>
        /\ Registrar("consultar_almoxafire", 0, <<data_ini, data_fim, turno, basico>>,
                     r.ret, 0, r.rows, AUDIT_LOGS, TRUE, <<>>)

do_consultar_epis_por_periodo(data_ini, data_fim, basico) ==
    LET r == consultar_epis_por_periodo(EPIS, EPIS_ITENS, data_ini, data_fim, basico)
    IN  /\ UNCHANGED <<usuarios, CurrentUser, registros, MONITORAMENTO, ALMOXAFIRE,
                       EPIS, EPIS_ITENS, AUDIT_LOGS>>
        /\ Registrar("consultar_epis_por_periodo", 0, <<data_ini, data_fim, NoneStr, basico>>,
                     r.ret, 0, r.rows, AUDIT_LOGS, TRUE, <<>>)

do_consultar_epis_por_matricula(matricula, data_ini, data_fim, basico) ==
    LET r == consultar_epis_por_matricula(EPIS, EPIS_ITENS, matricula, data_ini, data_fim,
                                          basico)
    IN  /\ UNCHANGED <<usuarios, CurrentUser, registros, MONITORAMENTO, ALMOXAFIRE,
                       EPIS, EPIS_ITENS, AUDIT_LOGS>>
        /\ Registrar("consultar_epis_por_matricula", matricula,
                     <<data_ini, data_fim, NoneStr, basico>>, r.ret, 0, r.rows,
                     AUDIT_LOGS, TRUE, <<>>)

do_consultar_consolidado_por_periodo(data_ini, data_fim, basico) ==
    LET r == consultar_consolidado_por_periodo(CONSOLIDADO, data_ini, data_fim, basico)
    IN  /\ UNCHANGED <<usuarios, CurrentUser, registros, MONITORAMENTO, ALMOXAFIRE,
                       EPIS, EPIS_ITENS, AUDIT_LOGS>>
        /\ Registrar("consultar_consolidado_por_periodo", 0,
                     <<data_ini, data_fim, NoneStr, basico>>, r.ret, 0, r.rows,
                     AUDIT_LOGS, TRUE, <<>>)

(* salvar_registro, statement by statement, in a process p that shares the
   storage file with another.  SQLite lets one connection at a time hold the
   write lock: the INSERT of the flush takes it, waiting while another
   connection holds it, and the COMMIT gives it back. *)

pode_escrever_sem_trava(t, p) == TRUE

\* The write lock is granted to p when no connection holds it.
pode_escrever(t, p) == t = 0

\* session.commit(), first half: the flush sends the INSERT, which takes the
\* write lock and receives the next rowid of the table as committed.
flush_insert(p) ==
    /\ processo[p].pc = "chamou"
    /\ pode_escrever(trava, p)
    /\ LET r == salvar_registro(registros, AUDIT_LOGS, 1, processo[p].q, <<"m">>, <<"A">>,
                                TRUE)
           modelo == CHOOSE m \in r.tab : m.id = r.rid /\ m \notin registros
       IN  processo' = [processo EXCEPT
               ![p].pc = "inserido",
               ![p].row = <<[modelo EXCEPT !.usuario = processo[p].sessao.username,
                                           !.usuario_id = processo[p].sessao.user_id]>>]
    /\ trava' = p
    /\ relogio' = relogio + 1
    /\ UNCHANGED <<usuarios, CurrentUser, registros, MONITORAMENTO, ALMOXAFIRE, EPIS,
                   EPIS_ITENS, CONSOLIDADO, AUDIT_LOGS, origem, ultimo,
                   auditoria_disponivel, autenticado, maior_id, fora_das_tabelas>>

\* session.commit(), second half: the COMMIT makes the row visible to the
\* other connections and releases the lock.
commit(p) ==
    /\ processo[p].pc = "inserido"
    /\ LET row == processo[p].row[1]
       IN  /\ registros' = registros \cup {row}
           /\ origem' = [k \in Chaves(registros', MONITORAMENTO, ALMOXAFIRE, EPIS) |->
                           IF k = <<"registros", row.id>>
                           THEN [por |-> processo[p].sessao.username,
                                 usuario |-> row.usuario, created_at |-> row.created_at,
                                 autor_excluido |-> FALSE]
                           ELSE origem[k]]
           /\ maior_id' = IF row.id > maior_id["registros"]
                          THEN [maior_id EXCEPT !["registros"] = row.id] ELSE maior_id
    /\ processo' = [processo EXCEPT ![p].pc = "efetivado"]
    /\ trava' = IF trava = p THEN 0 ELSE trava
    /\ UNCHANGED <<usuarios, CurrentUser, MONITORAMENTO, ALMOXAFIRE, EPIS, EPIS_ITENS,
                   CONSOLIDADO, AUDIT_LOGS, relogio, ultimo, auditoria_disponivel,
                   autenticado, fora_das_tabelas>>

\* try: salvar_auditoria(...) except: pass -- a transaction of its own, which
\* takes and releases the lock; a failed write is swallowed.
auditoria(p) ==
    /\ processo[p].pc = "efetivado"
    /\ pode_escrever(trava, p)
    /\ LET log == auditar(AUDIT_LOGS, Bloqueado, t_input, auditoria_disponivel)
       IN  AUDIT_LOGS' =
               IF log = AUDIT_LOGS THEN AUDIT_LOGS
               ELSE [log EXCEPT ![Len(log)].usuario = processo[p].sessao.username]
    /\ processo' = [processo EXCEPT ![p].pc = "auditado"]
    /\ UNCHANGED <<usuarios, CurrentUser, registros, MONITORAMENTO, ALMOXAFIRE, EPIS,
                   EPIS_ITENS, CONSOLIDADO, relogio, origem, ultimo,
                   auditoria_disponivel, autenticado, maior_id, trava, fora_das_tabelas>>

\* return modelo.id
devolver(p) ==
    /\ processo[p].pc = "auditado"
    /\ processo' = [processo EXCEPT ![p].pc = "retornou"]
    /\ UNCHANGED <<usuarios, CurrentUser, registros, MONITORAMENTO, ALMOXAFIRE, EPIS,
                   EPIS_ITENS, CONSOLIDADO, AUDIT_LOGS, relogio, origem, ultimo,
                   auditoria_disponivel, autenticado, maior_id, trava, fora_das_tabelas>>

passo(p) == flush_insert(p) \/ commit(p) \/ auditoria(p) \/ devolver(p)

(* --------------------------- inputs and Next --------------------------- *)

Alice == <<"a", "l", "i", "c", "e">>
Bob   == <<"b", "o", "b">>

\* Row ids a call may name: those a run can assign, so some name no row.
IdsPossiveis == 1..MaxClock
IdsDeEpi == 1..MaxEpis

Produto1 == [codigo |-> <<"c", "1">>, produto |-> <<"l", "u", "v", "a">>,
             quantidade |-> 2, uon |-> <<"p", "a", "r", "e", "s">>,
             valor_unit |-> NoneInt, valor_total |-> NoneInt]
ProdutoInvalido == [codigo |-> <<"c", "2">>, produto |-> <<"b", "o", "t", "a">>,
                    quantidade |-> 0, uon |-> NoneStr,
                    valor_unit |-> NoneInt, valor_total |-> NoneInt]

(* ----------------------------- consolidated ---------------------------- *)

\* str.replace(".", "").replace(",", "") of try_int.
RECURSIVE sem_pontos(_)
sem_pontos(s) ==
    IF s = <<>> THEN <<>>
    ELSE IF Head(s) \in {".", ","} THEN sem_pontos(Tail(s))
    ELSE <<Head(s)>> \o sem_pontos(Tail(s))

\* try_int on the text of a cell: None for an empty cell and for a text int()
\* rejects.
try_int(val) ==
    IF val = NoneStr \/ val = <<>> THEN NoneInt
    ELSE IF sem_pontos(val) # <<>> /\ ehDigitos(sem_pontos(val)) THEN Numero(sem_pontos(val))
    ELSE NoneInt

\* The ConsolidadoLinhaModel objects salvar_consolidado_linhas builds from
\* linhas, with the ids the INSERTs give them from prox on.
RECURSIVE objs_de_linhas(_, _, _)
objs_de_linhas(linhas, data_ref, prox) ==
    IF linhas = <<>> THEN {}
    ELSE LET r == Head(linhas)
         IN  {[id |-> prox, data_ref |-> data_ref, arm_ |-> try_int(r.arm),
               descricao_filial |-> IF r.filial = <<>> THEN NoneStr ELSE r.filial]}
             \cup objs_de_linhas(Tail(linhas), data_ref, prox + 1)

salvar_consolidado_linhas(tab, data_ref, linhas) ==
    [ret |-> "len", rid |-> Len(linhas),
     tab |-> tab \cup objs_de_linhas(linhas, data_ref, NextId(tab))]

\* The DELETE runs in the function's own session, which is never committed:
\* leaving the with block closes it and rolls the DELETE back.  The lines are
\* inserted and committed by salvar_consolidado_linhas in a second session, on
\* a second connection.  um_escritor: the store admits one writing connection at
\* a time (a SQLite file, the default DATABASE_URL); the first session holds
\* the write lock from its DELETE on, so the INSERT of the second one waits
\* and fails with "database is locked" (with no line to insert, the second
\* session writes nothing and its commit succeeds).
substituir_consolidado_linhas_por_data(tab, data_ref, linhas, um_escritor) ==
    IF um_escritor /\ linhas # <<>>
    THEN [ret |-> "raise", rid |-> 0, tab |-> tab]
    ELSE salvar_consolidado_linhas(tab, data_ref, linhas)

(* ------------------------------- catalog ------------------------------- *)

\* str(x) of a text or of None.
str(x) == IF x = NoneStr THEN <<"N", "o", "n", "e">> ELSE x

\* The (cod, prod, val) tuples substituir_configuracoes_api keeps: the items
\* whose code and product are not blank, trimmed, in the order given.
RECURSIVE norm_de_itens(_)
norm_de_itens(itens) ==
    IF itens = <<>> THEN <<>>
    ELSE LET it == Head(itens)
             cod == strip(str(it.codigo))
             prod == strip(str(it.produto))
             val == try_decimal(it.valor)
         IN  IF cod = <<>> \/ prod = <<>> THEN norm_de_itens(Tail(itens))
             ELSE <<<<cod, prod, val>>>> \o norm_de_itens(Tail(itens))

\* The ConfiguracaoAPIEPI rows of norm, with the ids the emptied table gives.
objs_de_norm(norm) ==
    {[id |-> i, codigo |-> norm[i][1], produto |-> norm[i][2], valor |-> norm[i][3]]
        : i \in 1..Len(norm)}

\* A substituir_configuracoes_api without the test for duplicate codes.
substituir_configuracoes_api_sem_teste(tab, itens) ==
    [ret |-> "len", rid |-> Len(norm_de_itens(itens)),
     tab |-> objs_de_norm(norm_de_itens(itens))]

substituir_configuracoes_api(tab, itens) ==
    LET norm == norm_de_itens(itens)
        cods == {norm[i][1] : i \in 1..Len(norm)}
    IN  IF Cardinality(cods) # Len(norm) THEN [ret |-> "raise", rid |-> 0, tab |-> tab]
        ELSE [ret |-> "len", rid |-> Len(norm), tab |-> objs_de_norm(norm)]

upsert_configuracao_api(tab, codigo, produto, valor) ==
    LET cod == strip(OrEmpty(codigo))
        prod == strip(OrEmpty(produto))
        achados == {r \in tab : r.codigo = cod}
    IN  IF cod = <<>> \/ prod = <<>> THEN [ret |-> "raise", tab |-> tab]
        ELSE IF achados # {}
        THEN LET obj == CHOOSE r \in achados : TRUE
             IN  [ret |-> "None",
                  tab |-> (tab \ {obj}) \cup {[obj EXCEPT !.produto = prod, !.valor = valor]}]
        ELSE [ret |-> "None",
              tab |-> tab \cup {[id |-> NextId(tab), codigo |-> cod, produto |-> prod,
                                 valor |-> valor]}]

excluir_configuracao_api(tab, codigo) ==
    LET achados == {r \in tab : r.codigo = codigo}
    IN  IF achados = {} THEN [ret |-> "False", tab |-> tab]
        ELSE [ret |-> "True", tab |-> tab \ {CHOOSE r \in achados : TRUE}]

(* ------------------------------- schema -------------------------------- *)

\* Base.metadata: the tables of the model classes and their columns.
Base_metadata ==
    [usuarios |-> {"id", "username", "senha_hash", "tipo", "created_at"},
     registros |-> {"id", "item", "quantidade", "motivo", "setor_responsavel",
                    "usuario", "usuario_id", "created_at"},
     MONITORAMENTO |-> {"id", "onda", "carga", "container", "responsavel", "setor",
                        "observacao", "usuario", "created_at"},
     ALMOXAFIRE |-> {"id", "setor", "turno", "matricula", "responsavel", "insumo",
                     "quantidade", "observacao", "usuario", "created_at"},
     EPIS |-> {"id", "matricula", "setor", "turno", "primeira", "data_ref",
               "responsavel", "observacao", "usuario", "created_at"},
     EPIS_ITENS |-> {"id", "epi_id", "codigo", "produto", "quantidade", "uon",
                     "valor_unit", "valor_total"},
     configuracoes_api |-> {"id", "codigo", "produto", "valor", "created_at"},
     AUDIT_LOGS |-> {"id", "usuario", "transacao", "tipo", "created_at"},
     CONSOLIDADO |-> {"id", "data_ref", "arm.", "Descrição Filial", "R$ Estoque",
                      "Qtde Item Mix", "Qtde Item com Estoque", "Qtde Item sem Estoque",
                      "R$ Bloq. Total", "R$ Bloq. no ESTOQUE", "R$ Bloq. em Negoc.",
                      "R$ Bloq. SALDO", "% Item com Estoque", "created_at"}]

\* Base.metadata.create_all(engine): CREATE TABLE for the tables the file does
\* not have; a table it has is left as it is.
create_all(esq) ==
    [t \in DOMAIN Base_metadata |-> IF esq[t] = {} THEN Base_metadata[t] ELSE esq[t]]

\* An init_db whose ALTER TABLE statements are not guarded by the column test.
ADD_COLUMN_sem_teste(r, tabela, coluna) ==
    IF r.esq[tabela] = {} THEN r
    ELSE [esq |-> [r.esq EXCEPT ![tabela] = @ \cup {coluna}],
          ddl |-> Append(r.ddl, <<"ADD COLUMN", tabela, coluna>>)]

\* PRAGMA table_info(tabela); if the table exists and coluna is not among its
\* columns, ALTER TABLE tabela ADD COLUMN coluna.  r.ddl lists the statements
\* executed so far.
ADD_COLUMN(r, tabela, coluna) ==
    IF r.esq[tabela] = {} \/ coluna \in r.esq[tabela] THEN r
    ELSE [esq |-> [r.esq EXCEPT ![tabela] = @ \cup {coluna}],
          ddl |-> Append(r.ddl, <<"ADD COLUMN", tabela, coluna>>)]

\* init_db on a file with the tables esq and the CONSOLIDADO rows consolidado:
\* the tables and the rows it leaves, and the statements it executed.
init_db(esq, consolidado) ==
    LET col_names == esq["CONSOLIDADO"]
        dropar == col_names # {} /\ "conteudo" \in col_names /\ "arm." \notin col_names
        e1 == IF dropar THEN [esq EXCEPT !["CONSOLIDADO"] = {}] ELSE esq
        d1 == IF dropar THEN <<<<"DROP TABLE", "CONSOLIDADO", "">>>> ELSE <<>>
        r0 == [esq |-> create_all(e1), ddl |-> d1]
        r1 == ADD_COLUMN(r0, "registros", "usuario")
        r2 == ADD_COLUMN(r1, "registros", "usuario_id")
        r3 == ADD_COLUMN(r2, "MONITORAMENTO", "usuario")
        r4 == ADD_COLUMN(r3, "ALMOXAFIRE", "usuario")
        r5 == ADD_COLUMN(r4, "configuracoes_api", "valor")
    IN  [esquema |-> r5.esq, ddl |-> r5.ddl,
         CONSOLIDADO |-> IF dropar THEN {} ELSE consolidado]

\* servidor.py calls init_db() when the program starts.
do_init_db ==
    LET r == init_db(esquema, CONSOLIDADO)
    IN  /\ esquema' = r.esquema
        /\ CONSOLIDADO' = r.CONSOLIDADO
        /\ UNCHANGED <<usuarios, CurrentUser, registros, MONITORAMENTO, ALMOXAFIRE, EPIS,
                       EPIS_ITENS, AUDIT_LOGS, ambiente, configuracoes_api, pagina, tempo>>
        /\ Anotar(Limites, "init_db", 0, <<>>, "None", 0, r.ddl, AUDIT_LOGS, TRUE, <<>>)

do_salvar_consolidado_linhas(data_ref, linhas) ==
    LET r == salvar_consolidado_linhas(CONSOLIDADO, data_ref, linhas)
    IN  /\ Cardinality(CONSOLIDADO) + Len(linhas) <= MaxConsolidado
        /\ CONSOLIDADO' = r.tab
        /\ UNCHANGED <<usuarios, CurrentUser, registros, MONITORAMENTO, ALMOXAFIRE, EPIS,
                       EPIS_ITENS, AUDIT_LOGS, fora_das_tabelas>>
        /\ Anotar(Limites, "salvar_consolidado_linhas", 0, <<data_ref, linhas>>,
                  r.ret, r.rid, <<>>, AUDIT_LOGS, TRUE, <<>>)

do_substituir_consolidado_linhas_por_data(data_ref, linhas, um_escritor) ==
    LET r == substituir_consolidado_linhas_por_data(CONSOLIDADO, data_ref, linhas,
                                                    um_escritor)
    IN  /\ Cardinality(CONSOLIDADO) + Len(linhas) <= MaxConsolidado
        /\ CONSOLIDADO' = r.tab
        /\ UNCHANGED <<usuarios, CurrentUser, registros, MONITORAMENTO, ALMOXAFIRE, EPIS,
                       EPIS_ITENS, AUDIT_LOGS, fora_das_tabelas>>
        /\ Anotar(Limites, "substituir_consolidado_linhas_por_data", 0,
                  <<data_ref, linhas, um_escritor>>, r.ret, r.rid, <<>>, AUDIT_LOGS,
                  TRUE, <<>>)

\* A call on the catalog: the catalog it leaves and what it returned.
ChamadaDoCatalogo(op, args, r, rid) ==
    /\ configuracoes_api' = r.tab
    /\ UNCHANGED <<usuarios, CurrentUser, registros, MONITORAMENTO, ALMOXAFIRE, EPIS,
                   EPIS_ITENS, CONSOLIDADO, AUDIT_LOGS, ambiente, esquema, pagina, tempo>>
    /\ Anotar(Limites, op, 0, args, r.ret, rid, <<>>, AUDIT_LOGS, TRUE, <<>>)

do_substituir_configuracoes_api(itens) ==
    LET r == substituir_configuracoes_api(configuracoes_api, itens)
    IN  ChamadaDoCatalogo("substituir_configuracoes_api", <<itens>>, r, r.rid)

do_upsert_configuracao_api(codigo, produto, valor) ==
    LET r == upsert_configuracao_api(configuracoes_api, codigo, produto, valor)
    IN  /\ Cardinality(r.tab) > Cardinality(configuracoes_api)
              => NextId(configuracoes_api) <= MaxItens
        /\ ChamadaDoCatalogo("upsert_configuracao_api", <<codigo, produto, valor>>, r, 0)

do_excluir_configuracao_api(codigo) ==
    LET r == excluir_configuracao_api(configuracoes_api, codigo)
    IN  ChamadaDoCatalogo("excluir_configuracao_api", <<codigo>>, r, 0)

(* ---------------------------- the installation -------------------------- *)

\* The registration keys of the installation: one per role, under the
\* current names.
Configurado ==
    [REGISTRO_API_KEY_USUARIO |-> "ku", REGISTRO_API_KEY |-> "",
     REGISTRO_API_KEY_ADMINISTRADOR |-> "ka", REGISTRO_API_KEY_ADM |-> ""]

\* ConsultasPage.__init__: an empty cache, nothing searched, nothing shown.
ConsultasPage_init ==
    [ed_busca_item |-> <<>>, consulta_cache |-> <<>>,
     ultimos_resultados_consulta |-> <<>>, lab_status_consulta |-> "",
     consulta_cache_ttl |-> 120, consulta_cache_max |-> 50]

\* The program has started on a store init_db has prepared, with both
\* registration keys configured.
Instalado ==
    /\ ambiente = Configurado
    /\ esquema = Base_metadata
    /\ configuracoes_api = {}
    /\ pagina = ConsultasPage_init
    /\ tempo = 0

\* <<username, tipo, api_key>> of the registrations tried.
Registros_de_usuario ==
    { <<Alice, "USUARIO", "ku">>, <<Bob, "USUARIO", "ku">>, <<Bob, "ADM", "ka">>,
      <<Alice, "ADMINISTRADOR", "ku">> }

Init ==
    /\ usuarios = {}
    /\ CurrentUser = Anonimo
    /\ registros = {}
    /\ MONITORAMENTO = {}
    /\ ALMOXAFIRE = {}
    /\ EPIS = {}
    /\ EPIS_ITENS = {}
    /\ CONSOLIDADO = {}
    /\ AUDIT_LOGS = <<>>
    /\ relogio = 0
    /\ origem = [k \in {} |-> 0]
    /\ ultimo = Ocioso
    /\ autenticado = Anonimo
    /\ maior_id = [t \in Gated |-> 0]
    /\ processo = [p \in Processos |-> Parado]
    /\ trava = 0
    /\ Instalado
    /\ auditoria_disponivel \in BOOLEAN

\* No handler is running: the event loop takes the next event.
Livre == ultimo = Ocioso

\* The event loop runs one handler at a time: a handler makes its call when
\* none is in progress.
Next ==
    \/ retornar
    \/ Livre /\ \E c \in Registros_de_usuario : do_criar_usuario(c[1], "s1", c[2], c[3])
    \/ Livre /\ \E c \in {<<Alice, "s1">>, <<Bob, "s1">>, <<Bob, "s2">>} :
          do_autenticar_usuario(c[1], c[2])
    \/ Livre /\ \E u \in {Alice, Bob} : do_excluir_usuario(u)
    \/ Livre /\ do_salvar_registro(Limites, 1, 1, <<"m">>, <<"A">>)
    \/ Livre /\ \E id \in IdsPossiveis, q \in {NoneInt, 2}, s \in {NoneStr, <<"A">>} :
          do_editar_registro(id, q, s)
    \/ Livre /\ \E id \in IdsPossiveis : do_excluir_registro(Limites, id)
    \/ Livre /\ \E item \in {0, 1} : do_consultar_registros_por_item(item)
    \/ Livre /\ \E resp \in {<<"r">>, <<" ">>} :
          do_salvar_monitoramento(<<"o">>, <<"c">>, <<"k">>, resp, <<"s">>, NoneStr)
    \/ Livre /\ \E id \in IdsPossiveis, resp \in {NoneStr, <<" ", "x">>},
                   s \in {NoneStr, <<"s", " ">>} :
          do_editar_monitoramento(id, resp, s, NoneStr)
    \/ Livre /\ \E id \in IdsPossiveis : do_excluir_monitoramento(id)
    \/ Livre /\ \E q \in {0, 1} :
          do_salvar_almoxafire(<<"s">>, <<"1">>, 7, <<"r">>, <<"i">>, q, NoneStr)
    \/ Livre /\ \E id \in IdsPossiveis, s \in {NoneStr, <<"s">>}, m \in {NoneInt, BadInt},
                   q \in {NoneInt, 0, 2} :
          do_editar_almoxafire(id, s, NoneStr, m, NoneStr, NoneStr, q, NoneStr)
    \/ Livre /\ \E id \in IdsPossiveis : do_excluir_almoxafire(id)
    \/ Livre /\ \E m \in {0, 7}, ps \in {<<>>, <<Produto1, ProdutoInvalido, Produto1>>} :
          do_salvar_epi(Limites, m, <<"s">>, <<"1">>, <<"S", "I", "M">>, 1, 9, NoneStr, ps)
    \/ Livre /\ \E id \in IdsPossiveis : do_excluir_epi(Limites, id)
    \/ Livre /\ \E id \in IdsPossiveis : do_listar_itens_de_epi(id)

Spec == Init /\ [][Next]_vars

\* The PPE calls alone, on a store that may hold several PPE records.
NextEPIS ==
    \/ retornar
    \/ Livre /\ \E c \in {<<Alice, "USUARIO", "ku">>, <<Bob, "ADM", "ka">>} :
          do_criar_usuario(c[1], "s1", c[2], c[3])
    \/ Livre /\ \E u \in {Alice, Bob} : do_autenticar_usuario(u, "s1")
    \/ Livre /\ \E m \in {0, 7}, ps \in {<<>>, <<Produto1, ProdutoInvalido, Produto1>>} :
          do_salvar_epi(LimitesEPIS, m, <<"s">>, <<"1">>, <<"S", "I", "M">>, 1, 9,
                        NoneStr, ps)
    \/ Livre /\ \E id \in IdsDeEpi : do_excluir_epi(LimitesEPIS, id)
    \/ Livre /\ \E id \in IdsDeEpi : do_listar_itens_de_epi(id)

SpecEPIS == Init /\ [][NextEPIS]_vars

\* Raw tipo arguments: padded, upper case, unaccented, unknown, blank, None.
TiposCrus ==
    { <<" ", "I", "N", "P", "U", "T", " ">>, <<"O", "u", "t", "p", "u", "t">>,
      t_consulta, t_alteracao, <<"A", "L", "T", "E", "R", "A", "Ç", "Ã", "O">>,
      <<"x", "y", "z">>, <<" ">>, NoneStr }

\* salvar_auditoria called with any tipo, beside the calls that reach it with
\* a literal one.
NextAUDITORIA ==
    \/ retornar
    \/ Livre /\ \E c \in {<<Alice, "USUARIO", "ku">>, <<Bob, "ADM", "ka">>} :
          do_criar_usuario(c[1], "s1", c[2], c[3])
    \/ Livre /\ \E u \in {Alice, Bob} : do_autenticar_usuario(u, "s1")
    \/ Livre /\ \E tr \in {Consultas, <<" ">>}, tp \in TiposCrus :
          do_salvar_auditoria(tr, tp)
    \/ Livre /\ do_salvar_registro(Limites, 1, 1, <<"m">>, <<"A">>)
    \/ Livre /\ \E id \in IdsPossiveis : do_excluir_registro(Limites, id)

SpecAUDITORIA == Init /\ [][NextAUDITORIA]_vars

(* ------------------------- the registration keys ------------------------ *)

\* The environments the program may be started in: each of the four
\* variables set or not.
Ambientes ==
    { [REGISTRO_API_KEY_USUARIO |-> u, REGISTRO_API_KEY |-> g,
       REGISTRO_API_KEY_ADMINISTRADOR |-> a, REGISTRO_API_KEY_ADM |-> m] :
        u \in {"", "ku"}, g \in {"", "kg"}, a \in {"", "ka"}, m \in {"", "km"} }

InitCHAVES ==
    /\ usuarios = {}
    /\ CurrentUser = Anonimo
    /\ registros = {}
    /\ MONITORAMENTO = {}
    /\ ALMOXAFIRE = {}
    /\ EPIS = {}
    /\ EPIS_ITENS = {}
    /\ CONSOLIDADO = {}
    /\ AUDIT_LOGS = <<>>
    /\ relogio = 0
    /\ origem = [k \in {} |-> 0]
    /\ ultimo = Ocioso
    /\ autenticado = Anonimo
    /\ maior_id = [t \in Gated |-> 0]
    /\ processo = [p \in Processos |-> Parado]
    /\ trava = 0
    /\ ambiente \in Ambientes
    /\ esquema = Base_metadata
    /\ configuracoes_api = {}
    /\ pagina = ConsultasPage_init
    /\ tempo = 0
    /\ auditoria_disponivel = TRUE

NextCHAVES ==
    \/ retornar
    \/ Livre /\ \E username \in {Alice, <<" ">> \o Alice, Bob, <<" ">>},
                   senha \in {"s1", ""},
                   tipo \in {"USUARIO", "ADMINISTRADOR", "ADM", "usuario"},
                   api_key \in {"", "ku", "kg", "ka", "km"} :
          do_criar_usuario(username, senha, tipo, api_key)

SpecCHAVES == InitCHAVES /\ [][NextCHAVES]_vars

(* --------------------------- the Consultas page ------------------------ *)

\* int() of the trimmed text of the search box, a text of digits or not.
int_de_texto(texto) ==
    IF texto # <<>> /\ ehDigitos(texto) THEN Numero(texto) ELSE BadInt

\* consultar_todos_registros(): every record, newest first.
consultar_todos_registros(tab) ==
    LET regs == order_by_created_at_desc(tab)
    IN  [i \in 1..Len(regs) |->
           [id |-> regs[i].id, item |-> regs[i].item,
            quantidade |-> regs[i].quantidade, motivo |-> regs[i].motivo,
            setor_responsavel |-> regs[i].setor_responsavel,
            usuario |-> regs[i].usuario, created_at |-> regs[i].created_at]]

\* _consulta_cache is a dict, kept here as its entries [item, ts, regs] in
\* insertion order.  dict.get: the position of the entry of k, 0 for none.
cache_get(cache, k) ==
    IF \E i \in 1..Len(cache) : cache[i].item = k
    THEN CHOOSE i \in 1..Len(cache) : cache[i].item = k
    ELSE 0

\* cache[k] = e: an existing key keeps its position.
cache_set(cache, k, e) ==
    IF cache_get(cache, k) # 0 THEN [cache EXCEPT ![cache_get(cache, k)] = e]
    ELSE Append(cache, e)

\* pop(min(cache.items(), key=ts)): the first entry of the least ts leaves.
cache_pop_mais_antigo(cache) ==
    LET i == CHOOSE i \in 1..Len(cache) :
                 /\ \A j \in 1..Len(cache) : cache[i].ts <= cache[j].ts
                 /\ \A j \in 1..(i - 1) : cache[j].ts > cache[i].ts
    IN  SubSeq(cache, 1, i - 1) \o SubSeq(cache, i + 1, Len(cache))

\* The list the page shows and keeps, with the status line ("cache" for the
\* "(cache) n registro(s)" text, "encontrados" for the same without prefix).
Exibir(pag, cache, regs, status) ==
    [pag EXCEPT !.consulta_cache = cache, !.ultimos_resultados_consulta = regs,
                !.lab_status_consulta = status]

\* ConsultasPage._executar_consulta_item at time now_ts: % reads every record,
\* an item code is served from the entry of the cache younger than the TTL
\* and from the store otherwise; nothing removes or refreshes an entry but a
\* query that finds it expired.
executar_consulta_item(pag, tab, log, now_ts) ==
    LET texto == strip(pag.ed_busca_item)
        item_cod == int_de_texto(texto)
        cache == pag.consulta_cache
        entry == cache_get(cache, item_cod)
        r == consultar_registros_por_item(tab, log, item_cod)
        posto == cache_set(cache, item_cod,
                           [item |-> item_cod, ts |-> now_ts, regs |-> r.rows])
        limitado == IF Len(posto) > pag.consulta_cache_max
                    THEN cache_pop_mais_antigo(posto) ELSE posto
        todos == consultar_todos_registros(tab)
    IN  IF texto = <<>> THEN [pag EXCEPT !.lab_status_consulta = "digite"]
        ELSE IF texto = <<"%">>
        THEN Exibir(pag, cache, todos, IF todos # <<>> THEN "todos" ELSE "nenhum")
        ELSE IF item_cod = BadInt THEN [pag EXCEPT !.lab_status_consulta = "invalido"]
        ELSE IF entry # 0 /\ now_ts - cache[entry].ts < pag.consulta_cache_ttl
        THEN Exibir(pag, cache, cache[entry].regs,
                    IF cache[entry].regs # <<>> THEN "cache" ELSE "nenhum")
        ELSE IF r.ret = "raise" THEN [pag EXCEPT !.lab_status_consulta = "erro"]
        ELSE Exibir(pag, limitado, r.rows,
                    IF r.rows # <<>> THEN "encontrados" ELSE "nenhum")

\* A handler of the page: its call of the store, recorded, and what it leaves
\* on the page.
Na_pagina(lim, op, id, args, r, r_ok, ok, pag) ==
    /\ registros' = r.tab
    /\ AUDIT_LOGS' = r.log
    /\ pagina' = pag
    /\ UNCHANGED <<usuarios, CurrentUser, MONITORAMENTO, ALMOXAFIRE, EPIS, EPIS_ITENS,
                   CONSOLIDADO, ambiente, esquema, configuracoes_api, tempo>>
    /\ Anotar(lim, op, id, args, r.ret, 0, <<>>, r_ok.log, ok, <<>>)

\* The user types in the search box.
digitar(texto) ==
    /\ pagina' = [pagina EXCEPT !.ed_busca_item = texto]
    /\ UNCHANGED <<usuarios, CurrentUser, registros, MONITORAMENTO, ALMOXAFIRE, EPIS,
                   EPIS_ITENS, CONSOLIDADO, AUDIT_LOGS, relogio, origem, ultimo,
                   autenticado, maior_id, processo, trava, auditoria_disponivel,
                   ambiente, esquema, configuracoes_api, tempo>>

\* time() advances by d seconds between two events.
passar_tempo(d) ==
    /\ tempo + d <= MaxTempo
    /\ tempo' = tempo + d
    /\ UNCHANGED <<usuarios, CurrentUser, registros, MONITORAMENTO, ALMOXAFIRE, EPIS,
                   EPIS_ITENS, CONSOLIDADO, AUDIT_LOGS, relogio, origem, ultimo,
                   autenticado, maior_id, processo, trava, auditoria_disponivel,
                   ambiente, esquema, configuracoes_api, pagina>>

\* The search button.
do_executar_consulta_item(lim) ==
    LET r == [ret |-> "None", tab |-> registros, log |-> AUDIT_LOGS]
    IN  Na_pagina(lim, "executar_consulta_item", 0, <<pagina.ed_busca_item>>, r, r, TRUE,
                  executar_consulta_item(pagina, registros, AUDIT_LOGS, tempo))

\* _popular_tabela_consultas enables the buttons of a row for an administrator
\* and for the user the row names.
Botao_habilitado(row) ==
    \/ CurrentUser.tipo = "ADMINISTRADOR"
    \/ CurrentUser.username \notin {NoneStr, <<>>} /\ CurrentUser.username = row.usuario

\* _confirmar_e_excluir_registro, confirmed, from the X button of row i of the
\* table: the delete and, when it succeeds, the query again.
do_confirmar_e_excluir_registro(lim, i) ==
    /\ i \in 1..Len(pagina.ultimos_resultados_consulta)
    /\ Botao_habilitado(pagina.ultimos_resultados_consulta[i])
    /\ \E ok \in Oks(excluir_registro(registros, AUDIT_LOGS,
                                      pagina.ultimos_resultados_consulta[i].id, TRUE).log) :
       LET registro_id == pagina.ultimos_resultados_consulta[i].id
           r == excluir_registro(registros, AUDIT_LOGS, registro_id, ok)
           r_ok == excluir_registro(registros, AUDIT_LOGS, registro_id, TRUE)
       IN  Na_pagina(lim, "excluir_registro", registro_id, <<>>, r, r_ok, ok,
                     IF r.ret = "True"
                     THEN executar_consulta_item(pagina, r.tab, r.log, tempo)
                     ELSE pagina)

\* _abrir_edicao_registro, accepted, from the Editar button of row i: the edit
\* with the values of the dialog and, when it succeeds, the query again.
do_abrir_edicao_registro(lim, i, nova_qtd, novo_setor) ==
    /\ i \in 1..Len(pagina.ultimos_resultados_consulta)
    /\ Botao_habilitado(pagina.ultimos_resultados_consulta[i])
    /\ \E ok \in Oks(editar_registro(registros, AUDIT_LOGS,
                                     pagina.ultimos_resultados_consulta[i].id,
                                     nova_qtd, novo_setor, TRUE).log) :
       LET registro_id == pagina.ultimos_resultados_consulta[i].id
           r == editar_registro(registros, AUDIT_LOGS, registro_id, nova_qtd, novo_setor, ok)
           r_ok == editar_registro(registros, AUDIT_LOGS, registro_id, nova_qtd,
                                   novo_setor, TRUE)
       IN  Na_pagina(lim, "editar_registro", registro_id, <<nova_qtd, novo_setor>>,
                     r, r_ok, ok,
                     IF r.ret = "True"
                     THEN executar_consulta_item(pagina, r.tab, r.log, tempo)
                     ELSE pagina)

\* A run of the page: MaxRegistros inserts, and room in the audit table for
\* an edit or a delete more than in the other runs.
LimitesPAGINA == [linhas |-> MaxRegistros, auditoria |-> MaxAudit + 1]

\* What is typed in the search box: every record, an item code with padding,
\* no number (the box is empty when the page opens).
Textos_de_busca == { <<"%">>, <<" ", "1">>, <<"x">> }

\* The page in use by a logged-in account: records are registered (on the
\* Blocked-Item page), searched, edited and deleted, and time passes.
InitPAGINA ==
    /\ usuarios = {[id |-> 1, username |-> Alice, senha_hash |-> hash_senha("s1"),
                    tipo |-> "USUARIO"],
                   [id |-> 2, username |-> Bob, senha_hash |-> hash_senha("s1"),
                    tipo |-> "ADMINISTRADOR"]}
    /\ CurrentUser = [username |-> Alice, user_id |-> 1, tipo |-> "USUARIO"]
    /\ autenticado = CurrentUser
    /\ registros = {}
    /\ MONITORAMENTO = {}
    /\ ALMOXAFIRE = {}
    /\ EPIS = {}
    /\ EPIS_ITENS = {}
    /\ CONSOLIDADO = {}
    /\ AUDIT_LOGS = <<>>
    /\ relogio = 0
    /\ origem = [k \in {} |-> 0]
    /\ ultimo = Ocioso
    /\ maior_id = [t \in Gated |-> 0]
    /\ processo = [p \in Processos |-> Parado]
    /\ trava = 0
    /\ Instalado
    /\ auditoria_disponivel = TRUE

NextPAGINA ==
    \/ retornar
    \/ Livre /\ \E item \in {1, 2} :
          do_salvar_registro(LimitesPAGINA, item, 1, <<"m">>, <<"A">>)
    \/ Livre /\ \E texto \in Textos_de_busca : digitar(texto)
    \/ Livre /\ passar_tempo(60)
    \/ Livre /\ do_executar_consulta_item(LimitesPAGINA)
    \/ Livre /\ \E i \in 1..MaxRegistros : do_confirmar_e_excluir_registro(LimitesPAGINA, i)
    \/ Livre /\ \E i \in 1..MaxRegistros :
          do_abrir_edicao_registro(LimitesPAGINA, i, 2, <<"B">>)

SpecPAGINA == InitPAGINA /\ [][NextPAGINA]_vars

(* ------------------------------ the catalog ----------------------------- *)

\* The rows of the catalog dialog: codes with and without padding, a blank
\* code, a blank product, a value or none.
ItensPossiveis ==
    { [codigo |-> <<"a">>, produto |-> <<"p">>, valor |-> 5],
      [codigo |-> <<" ", "a">>, produto |-> <<"q", " ">>, valor |-> NoneInt],
      [codigo |-> <<"b">>, produto |-> <<"p">>, valor |-> NoneInt],
      [codigo |-> <<" ">>, produto |-> <<"p">>, valor |-> NoneInt],
      [codigo |-> <<"a">>, produto |-> <<>>, valor |-> 5] }

Catalogos == UNION {[1..k -> ItensPossiveis] : k \in 0..MaxItens}

NextCATALOGO ==
    \/ retornar
    \/ Livre /\ \E itens \in Catalogos : do_substituir_configuracoes_api(itens)
    \/ Livre /\ \E it \in ItensPossiveis :
          do_upsert_configuracao_api(it.codigo, it.produto, it.valor)
    \/ Livre /\ \E cod \in {<<"a">>, <<" ", "a">>, <<"b">>} : do_excluir_configuracao_api(cod)

SpecCATALOGO == Init /\ [][NextCATALOGO]_vars

(* --------------------------- the consolidated lines --------------------- *)

\* The rows of the table on the Consolidado page: the cells arm. and
\* Descrição Filial, as text.
Linha_B == [arm |-> <<"1">>, filial |-> <<"B">>]
Linha_A == [arm |-> <<"1", ".", "0", "2">>, filial |-> <<"A">>]
Linha_vazia == [arm |-> <<>>, filial |-> <<>>]

Planilhas == {<<>>, <<Linha_B>>, <<Linha_A, Linha_vazia>>}

Datas_ref == {<<2024, 1, 1>>, <<2024, 1, 2>>}

NextCONSOLIDADO ==
    \/ retornar
    \/ Livre /\ \E d \in Datas_ref, L \in Planilhas : do_salvar_consolidado_linhas(d, L)
    \/ Livre /\ \E d \in Datas_ref, L \in Planilhas, um_escritor \in BOOLEAN :
          do_substituir_consolidado_linhas_por_data(d, L, um_escritor)

SpecCONSOLIDADO == Init /\ [][NextCONSOLIDADO]_vars

(* ------------------------- the stores of older versions ----------------- *)

\* The columns a table can have in a file an older version of the program
\* wrote ({}: the table is not there).
Formas(t) ==
    CASE t = "registros" ->
             {{}} \cup {Base_metadata[t] \ S : S \in SUBSET {"usuario", "usuario_id"}}
      [] t \in {"MONITORAMENTO", "ALMOXAFIRE"} ->
             {{}, Base_metadata[t] \ {"usuario"}, Base_metadata[t]}
      [] t = "configuracoes_api" -> {{}, Base_metadata[t] \ {"valor"}, Base_metadata[t]}
      [] t = "CONSOLIDADO" ->
             {{}, {"id", "conteudo"}, {"id", "conteudo", "arm."}, Base_metadata[t]}
      [] OTHER -> {{}, Base_metadata[t]}

\* The rows of a CONSOLIDADO table with the columns cols.
LinhasDeConsolidado(cols) ==
    IF cols = {} THEN {}
    ELSE IF cols = {"id", "conteudo"} THEN {[id |-> 1, conteudo |-> <<"{", "}">>]}
    ELSE IF "conteudo" \in cols THEN {[id |-> 1, conteudo |-> <<"{", "}">>, arm_ |-> 1]}
    ELSE {[id |-> 1, data_ref |-> <<2024, 1, 1>>, arm_ |-> 1, descricao_filial |-> <<"B">>]}

\* A Blocked-Item row of a file written before the owner columns existed.
RegistroAntigo ==
    [id |-> 1, item |-> 1, quantidade |-> 1, motivo |-> <<"m">>,
     setor_responsavel |-> <<"A">>, usuario |-> NoneStr, usuario_id |-> 0,
     created_at |-> 0]

\* The program starts on the file of any older version, empty or not.
InitESQUEMA ==
    /\ \E fr \in Formas("registros"), fm \in Formas("MONITORAMENTO"),
          fa \in Formas("ALMOXAFIRE"), fc \in Formas("configuracoes_api"),
          fk \in Formas("CONSOLIDADO"), fl \in Formas("AUDIT_LOGS"),
          fu \in Formas("usuarios"), cheio \in BOOLEAN :
          /\ esquema = [usuarios |-> fu, registros |-> fr, MONITORAMENTO |-> fm,
                        ALMOXAFIRE |-> fa,
                        EPIS |-> IF fu = {} THEN {} ELSE Base_metadata["EPIS"],
                        EPIS_ITENS |-> IF fu = {} THEN {} ELSE Base_metadata["EPIS_ITENS"],
                        configuracoes_api |-> fc, AUDIT_LOGS |-> fl, CONSOLIDADO |-> fk]
          /\ CONSOLIDADO = IF cheio THEN LinhasDeConsolidado(fk) ELSE {}
          /\ registros = IF cheio /\ fr # {} THEN {RegistroAntigo} ELSE {}
    /\ usuarios = {}
    /\ CurrentUser = Anonimo
    /\ MONITORAMENTO = {}
    /\ ALMOXAFIRE = {}
    /\ EPIS = {}
    /\ EPIS_ITENS = {}
    /\ AUDIT_LOGS = <<>>
    /\ relogio = 0
    /\ origem = [k \in Chaves(registros, {}, {}, {}) |->
                   [por |-> NoneStr, usuario |-> NoneStr, created_at |-> 0,
                    autor_excluido |-> FALSE]]
    /\ ultimo = Ocioso
    /\ autenticado = Anonimo
    /\ maior_id = [t \in Gated |-> IF t = "registros" /\ registros # {} THEN 1 ELSE 0]
    /\ processo = [p \in Processos |-> Parado]
    /\ trava = 0
    /\ ambiente = Configurado
    /\ configuracoes_api = {}
    /\ pagina = ConsultasPage_init
    /\ tempo = 0
    /\ auditoria_disponivel = TRUE

NextESQUEMA ==
    \/ retornar
    \/ Livre /\ do_init_db

SpecESQUEMA == InitESQUEMA /\ [][NextESQUEMA]_vars

(* ------------------------------ the edits ------------------------------- *)

\* The program starts on a store that has the accounts of alice, a user, and
\* bob, an administrator, and no record.
InitEDICOES ==
    /\ usuarios = {[id |-> 1, username |-> Alice, senha_hash |-> hash_senha("s1"),
                    tipo |-> "USUARIO"],
                   [id |-> 2, username |-> Bob, senha_hash |-> hash_senha("s1"),
                    tipo |-> "ADMINISTRADOR"]}
    /\ CurrentUser = Anonimo
    /\ registros = {}
    /\ MONITORAMENTO = {}
    /\ ALMOXAFIRE = {}
    /\ EPIS = {}
    /\ EPIS_ITENS = {}
    /\ CONSOLIDADO = {}
    /\ AUDIT_LOGS = <<>>
    /\ relogio = 0
    /\ origem = [k \in {} |-> 0]
    /\ ultimo = Ocioso
    /\ autenticado = Anonimo
    /\ maior_id = [t \in Gated |-> 0]
    /\ processo = [p \in Processos |-> Parado]
    /\ trava = 0
    /\ Instalado
    /\ auditoria_disponivel \in BOOLEAN

\* <<quantidade, setor_responsavel>> of the edits of a Blocked-Item record.
Edicoes_de_registro ==
    { <<NoneInt, NoneStr>>, <<2, NoneStr>>, <<NoneInt, <<" ", "b">>>>, <<0, <<>>>> }

\* <<setor, turno, matricula, responsavel, insumo, quantidade, observacao>> of
\* the edits of a Supply-Room record.
Edicoes_de_almoxafire ==
    { <<NoneStr, NoneStr, NoneInt, NoneStr, NoneStr, NoneInt, NoneStr>>,
      <<<<" ", "t">>, NoneStr, NoneInt, NoneStr, NoneStr, NoneInt, NoneStr>>,
      <<NoneStr, <<"2", " ">>, 8, NoneStr, NoneStr, NoneInt, NoneStr>>,
      <<NoneStr, NoneStr, NoneInt, <<"n", "o">>, <<" ", "k">>, 2, NoneStr>>,
      <<NoneStr, NoneStr, NoneInt, NoneStr, NoneStr, NoneInt, <<" ">>>>,
      <<NoneStr, NoneStr, NoneInt, NoneStr, NoneStr, NoneInt, <<"o", " ">>>>,
      <<<<"t">>, NoneStr, NoneInt, NoneStr, NoneStr, 0, NoneStr>>,
      <<<<"t">>, NoneStr, BadInt, NoneStr, NoneStr, NoneInt, NoneStr>>,
      <<<<" ">>, NoneStr, 0, NoneStr, NoneStr, NoneInt, NoneStr>>,
      <<NoneStr, <<>>, NoneInt, <<" ">>, <<>>, NoneInt, NoneStr>> }

\* <<responsavel, setor, observacao>> of the edits of a Monitoring record.
Edicoes_de_monitoramento ==
    { <<NoneStr, NoneStr, NoneStr>>, <<<<" ", "x">>, NoneStr, NoneStr>>,
      <<NoneStr, <<"s", " ">>, <<"o">>>> }

NextEDICOES ==
    \/ retornar
    \/ Livre /\ \E u \in {Alice, Bob} : do_autenticar_usuario(u, "s1")
    \/ Livre /\ do_salvar_registro(Limites, 1, 1, <<"m">>, <<"A">>)
    \/ Livre /\ do_salvar_monitoramento(<<"o">>, <<"c">>, <<"k">>, <<"r">>, <<"s">>, NoneStr)
    \/ Livre /\ do_salvar_almoxafire(<<"s">>, <<"1">>, 7, <<"r">>, <<"i">>, 1, <<"v">>)
    \/ Livre /\ \E id \in IdsPossiveis, e \in Edicoes_de_registro :
          do_editar_registro(id, e[1], e[2])
    \/ Livre /\ \E id \in IdsPossiveis, e \in Edicoes_de_monitoramento :
          do_editar_monitoramento(id, e[1], e[2], e[3])
    \/ Livre /\ \E id \in IdsPossiveis, e \in Edicoes_de_almoxafire :
          do_editar_almoxafire(id, e[1], e[2], e[3], e[4], e[5], e[6], e[7])

SpecEDICOES == InitEDICOES /\ [][NextEDICOES]_vars

(* ------------------- two processes on one storage file ----------------- *)

\* alice in one process and bob in the other have each called salvar_registro
\* on a file that holds no record or one.
InitCONCORRENTES ==
    /\ usuarios = {[id |-> 1, username |-> Alice, senha_hash |-> hash_senha("s1"),
                    tipo |-> "USUARIO"],
                   [id |-> 2, username |-> Bob, senha_hash |-> hash_senha("s1"),
                    tipo |-> "USUARIO"]}
    /\ CurrentUser = Anonimo
    /\ registros \in {{}, {[id |-> 1, item |-> 1, quantidade |-> 1, motivo |-> <<"m">>,
                           setor_responsavel |-> <<"A">>, usuario |-> Alice,
                           usuario_id |-> 1, created_at |-> 0]}}
    /\ MONITORAMENTO = {}
    /\ ALMOXAFIRE = {}
    /\ EPIS = {}
    /\ EPIS_ITENS = {}
    /\ CONSOLIDADO = {}
    /\ AUDIT_LOGS = <<>>
    /\ relogio = 1
    /\ origem = [k \in Chaves(registros, {}, {}, {}) |->
                   [por |-> Alice, usuario |-> Alice, created_at |-> 0,
                    autor_excluido |-> FALSE]]
    /\ ultimo = Ocioso
    /\ autenticado = Anonimo
    /\ maior_id = [t \in Gated |-> IF t = "registros" THEN Cardinality(registros) ELSE 0]
    /\ \E q1 \in {1, 2}, q2 \in {1, 2} :
          processo = [p \in Processos |->
                        [pc |-> "chamou", q |-> IF p = 1 THEN q1 ELSE q2, row |-> <<>>,
                         sessao |-> IF p = 1
                                    THEN [username |-> Alice, user_id |-> 1, tipo |-> "USUARIO"]
                                    ELSE [username |-> Bob, user_id |-> 2, tipo |-> "USUARIO"]]]
    /\ trava = 0
    /\ Instalado
    /\ auditoria_disponivel \in BOOLEAN

NextCONCORRENTES ==
    \/ \E p \in Processos : flush_insert(p)
    \/ \E p \in Processos : commit(p)
    \/ \E p \in Processos : auditoria(p)
    \/ \E p \in Processos : devolver(p)

\* Each process runs on: a statement that can be executed is executed.
SpecCONCORRENTES ==
    InitCONCORRENTES /\ [][NextCONCORRENTES]_vars
    /\ \A p \in Processos : WF_vars(passo(p))

(* --------------------- inserts and deletes of one kind ------------------ *)

\* The inserts of a run of SpecIDS.
MaxIds == 2

LimitesIDS == [linhas |-> MaxIds, auditoria |-> 2 * MaxIds]

NextIDS ==
    \/ retornar
    \/ Livre /\ do_criar_usuario(Alice, "s1", "USUARIO", "ku")
    \/ Livre /\ do_autenticar_usuario(Alice, "s1")
    \/ Livre /\ \E q \in {1, 2} : do_salvar_registro(LimitesIDS, 1, q, <<"m">>, <<"A">>)
    \/ Livre /\ \E id \in 1..MaxIds : do_excluir_registro(LimitesIDS, id)

SpecIDS == Init /\ [][NextIDS]_vars

(* ------------------------- accounts and the session --------------------- *)

\* <<username, tipo, api_key>> of the registrations tried: each name as a
\* user and as an administrator, with the right key and with a wrong one.
Registros_de_conta ==
    { <<Alice, "USUARIO", "ku">>, <<Alice, "ADMINISTRADOR", "ka">>,
      <<Bob, "USUARIO", "ku">>, <<Bob, "ADM", "ka">>,
      <<Alice, "ADMINISTRADOR", "ku">>, <<Bob, "USUARIO", "">>,
      <<<<" ">> \o Bob, "USUARIO", "ku">> }

NextUSUARIOS ==
    \/ retornar
    \/ Livre /\ \E c \in Registros_de_conta : do_criar_usuario(c[1], "s1", c[2], c[3])
    \/ Livre /\ \E u \in {Alice, Bob}, senha \in {"s1", "s2"} : do_autenticar_usuario(u, senha)
    \/ Livre /\ \E tipo \in {"", "USUARIO"} : do_listar_usuarios(tipo)
    \/ Livre /\ \E u \in {Alice, Bob}, nova \in {"", "s2"} :
          do_redefinir_senha_usuario(u, nova)
    \/ Livre /\ \E u \in {Alice, Bob} : do_excluir_usuario(u)

SpecUSUARIOS == Init /\ [][NextUSUARIOS]_vars

(* ------------------------- the inserts, validated ----------------------- *)

\* Texts given for a required field: filled, padded, blank, empty, absent.
CamposDados == {<<"m">>, <<" ", "m">>, <<" ">>, <<>>, NoneStr}

NextINSERCOES ==
    \/ retornar
    \/ Livre /\ \E q \in {-1, 0, 1, NoneInt}, motivo \in CamposDados,
                   setor \in {<<"A">>, <<>>} :
          do_salvar_registro(Limites, 1, q, motivo, setor)
    \/ Livre /\ \E resp \in CamposDados, setor \in {<<"s">>, NoneStr} :
          do_salvar_monitoramento(<<"o">>, <<"c">>, <<"k">>, resp, setor, NoneStr)
    \/ Livre /\ \E q \in {-1, 0, 1, BadInt}, m \in {0, 7}, insumo \in CamposDados :
          do_salvar_almoxafire(<<"s">>, <<"1">>, m, <<"r">>, insumo, q, NoneStr)

SpecINSERCOES == Init /\ [][NextINSERCOES]_vars

(* ------------------- the range queries over a dated store -------------- *)

\* The texts given as bounds: absent, empty, two days, a day in the basic
\* form, a day with a time, and two texts that name no day.
D_2024_01_01 == <<"2", "0", "2", "4", "-", "0", "1", "-", "0", "1">>
D_2024_01_02 == <<"2", "0", "2", "4", "-", "0", "1", "-", "0", "2">>
D_20240101 == <<"2", "0", "2", "4", "0", "1", "0", "1">>
D_2024_01_01T12 == D_2024_01_01 \o <<"T", "1", "2", ":", "0", "0", ":", "0", "0">>
D_2024_01_32 == <<"2", "0", "2", "4", "-", "0", "1", "-", "3", "2">>
D_01_01_2024 == <<"0", "1", "/", "0", "1", "/", "2", "0", "2", "4">>

Limites_de_data ==
    {NoneStr, <<>>, D_2024_01_01, D_2024_01_02, D_20240101, D_2024_01_01T12,
     D_2024_01_32, D_01_01_2024}

\* created_at values around the end of 2024-01-01.
T_vespera == <<2023, 12, 31, 23, 59, 59, 999999>>
T_inicio == <<2024, 1, 1, 0, 0, 0, 0>>
T_meio_dia == <<2024, 1, 1, 12, 0, 0, 0>>
T_ultimo_segundo == <<2024, 1, 1, 23, 59, 59, 0>>
T_seguinte == <<2024, 1, 2, 0, 0, 0, 0>>
T_seguinte_tarde == <<2024, 1, 2, 15, 30, 0, 0>>

Instantes == <<T_vespera, T_inicio, T_meio_dia, T_ultimo_segundo, T_seguinte,
               T_seguinte_tarde>>

\* The rows alice saved, one at each instant, in the order of their ids.
RegistrosDatados ==
    {[id |-> i, item |-> 1, quantidade |-> 1,
      motivo |-> IF i % 2 = 0 THEN <<"M">> ELSE <<"x">>,
      setor_responsavel |-> <<"A">>, usuario |-> Alice, usuario_id |-> 1,
      created_at |-> Instantes[i]] : i \in 1..Len(Instantes)}

AlmoxafireDatado ==
    {[id |-> i, setor |-> <<"S">>, turno |-> IF i = 2 THEN <<"2">> ELSE <<"1">>,
      matricula |-> 7, responsavel |-> <<"R">>, insumo |-> <<"i">>, quantidade |-> 1,
      observacao |-> NoneStr, usuario |-> Alice,
      created_at |-> Instantes[2 * i]] : i \in 1..3}

EpisDatados ==
    {[id |-> i, matricula |-> 6 + (i % 2), setor |-> <<"S">>, turno |-> <<"1">>,
      primeira |-> <<"S", "I", "M">>, data_ref |-> SubSeq(Instantes[2 * i - 1], 1, 3),
      responsavel |-> 9, observacao |-> NoneStr, usuario |-> Alice,
      created_at |-> T_seguinte_tarde] : i \in 1..3}

ConsolidadoDatado ==
    {[id |-> 1, data_ref |-> <<2024, 1, 1>>, arm_ |-> 1, descricao_filial |-> <<"B">>],
     [id |-> 2, data_ref |-> <<2024, 1, 1>>, arm_ |-> 2, descricao_filial |-> <<"A">>],
     [id |-> 3, data_ref |-> <<2024, 1, 2>>, arm_ |-> 1, descricao_filial |-> <<"B">>]}

\* A store that alice filled and from which rows were deleted since.
InitDATAS ==
    /\ usuarios = {[id |-> 1, username |-> Alice, senha_hash |-> hash_senha("s1"),
                    tipo |-> "USUARIO"]}
    /\ CurrentUser = [username |-> Alice, user_id |-> 1, tipo |-> "USUARIO"]
    /\ registros \in SUBSET RegistrosDatados
    /\ MONITORAMENTO = {}
    /\ \E cheio \in BOOLEAN :
          /\ ALMOXAFIRE = IF cheio THEN AlmoxafireDatado ELSE {}
          /\ EPIS = IF cheio THEN EpisDatados ELSE {}
          /\ CONSOLIDADO = IF cheio THEN ConsolidadoDatado ELSE {}
    /\ EPIS_ITENS = {}
    /\ AUDIT_LOGS = <<>>
    /\ relogio = 0
    /\ origem = [k \in Chaves(registros, {}, ALMOXAFIRE, EPIS) |->
                   [por |-> Alice, usuario |-> Alice,
                    created_at |-> Row(Tabela(k[1], registros, {}, ALMOXAFIRE, EPIS),
                                       k[2]).created_at,
                    autor_excluido |-> FALSE]]
    /\ ultimo = Ocioso
    /\ autenticado = CurrentUser
    /\ maior_id = [t \in Gated |->
                     IF Tabela(t, registros, {}, ALMOXAFIRE, EPIS) = {} /\ t # "registros"
                     THEN 0 ELSE Len(Instantes)]
    /\ processo = [p \in Processos |-> Parado]
    /\ trava = 0
    /\ Instalado
    /\ auditoria_disponivel = TRUE

NextDATAS ==
    \/ retornar
    \/ Livre /\ \E di \in Limites_de_data, df \in Limites_de_data,
                   sub \in {NoneStr, <<"m">>}, basico \in BOOLEAN :
          do_consultar_registros_filtrados(di, df, sub, basico)
    \/ Livre /\ \E di \in Limites_de_data, df \in Limites_de_data,
                   turno \in {NoneStr, <<"1">>}, basico \in BOOLEAN :
          do_consultar_almoxafire(turno, di, df, basico)
    \/ Livre /\ \E di \in Limites_de_data, df \in Limites_de_data, basico \in BOOLEAN :
          do_consultar_epis_por_periodo(di, df, basico)
    \/ Livre /\ \E di \in Limites_de_data, df \in Limites_de_data, m \in {7, BadInt},
                   basico \in BOOLEAN :
          do_consultar_epis_por_matricula(m, di, df, basico)
    \/ Livre /\ \E di \in Limites_de_data, df \in Limites_de_data, basico \in BOOLEAN :
          do_consultar_consolidado_por_periodo(di, df, basico)

SpecDATAS == InitDATAS /\ [][NextDATAS]_vars

(* ----------------------------- properties ------------------------------ *)

Criacoes == {"salvar_registro", "salvar_monitoramento", "salvar_almoxafire", "salvar_epi"}
Edicoes == {"editar_registro", "editar_monitoramento", "editar_almoxafire"}
Exclusoes == {"excluir_registro", "excluir_monitoramento", "excluir_almoxafire",
              "excluir_epi"}
Consultas_ == {"consultar_registros_por_item"}

\* The table a call works on.
TabelaDe(op) ==
    CASE op \in {"salvar_registro", "editar_registro", "excluir_registro",
                 "consultar_registros_por_item"} -> "registros"
      [] op \in {"salvar_monitoramento", "editar_monitoramento",
                 "excluir_monitoramento"} -> "MONITORAMENTO"
      [] op \in {"salvar_almoxafire", "editar_almoxafire", "excluir_almoxafire"}
           -> "ALMOXAFIRE"
      [] op \in {"salvar_epi", "excluir_epi"} -> "EPIS"

TabelaEm(e, nome) == Tabela(nome, e.registros, e.MONITORAMENTO, e.ALMOXAFIRE, e.EPIS)

\* The call in progress is an edit or a delete of a gated row.
Mutacao == ultimo.op \in Edicoes \cup Exclusoes

\* ... and the row it names was stored when the call was made.
ExisteAlvo == Mutacao /\ Has(TabelaEm(ultimo.antes, TabelaDe(ultimo.op)), ultimo.id)

Alvo == Row(TabelaEm(ultimo.antes, TabelaDe(ultimo.op)), ultimo.id)

ChaveAlvo == <<TabelaDe(ultimo.op), ultimo.id>>

\* The session that made the call.
Chamador == ultimo.antes.CurrentUser

\* The row the call named is stored now.
AlvoPersiste == Has(TabelaEm(Estado, TabelaDe(ultimo.op)), ultimo.id)

AlvoAgora == Row(TabelaEm(Estado, TabelaDe(ultimo.op)), ultimo.id)

\* An edit that supplies at least one field (a delete supplies none to omit).
Fornecido ==
    CASE ultimo.op = "editar_registro" ->
             ultimo.args[1] # NoneInt \/ ultimo.args[2] # NoneStr
      [] ultimo.op = "editar_monitoramento" ->
             \E i \in 1..3 : ultimo.args[i] # NoneStr
      [] ultimo.op = "editar_almoxafire" ->
             \/ \E i \in {1, 2, 4, 5, 7} : ultimo.args[i] # NoneStr
             \/ \E i \in {3, 6} : ultimo.args[i] # NoneInt
      [] OTHER -> TRUE

\* The matricula and quantidade given to editar_almoxafire, if any, are
\* integers, and the quantidade is positive.
ValoresValidos ==
    ultimo.op = "editar_almoxafire" =>
        /\ ultimo.args[3] # BadInt
        /\ ultimo.args[6] = NoneInt \/ ultimo.args[6] > 0

\* C1: an edit or delete of a stored row of a gated table, made by a session
\* that is not ADMINISTRADOR and whose username differs from the row's owner,
\* returns False and leaves the row (and, for a PPE record, its items) as it was.
C1_NegadoNaoAltera ==
    (ExisteAlvo /\ Chamador.tipo # "ADMINISTRADOR" /\ Alvo.usuario # Chamador.username)
    => /\ ultimo.ret = "False"
       /\ Alvo \in TabelaEm(Estado, TabelaDe(ultimo.op))
       /\ EPIS_ITENS = ultimo.antes.EPIS_ITENS

\* C1 witness: a logged-in USUARIO tried an edit, with a field, of a row
\* another named user owns, and got False.
C1_Witness ==
    /\ ExisteAlvo
    /\ ultimo.op \in Edicoes
    /\ Fornecido
    /\ Chamador.tipo = "USUARIO"
    /\ Alvo.usuario \notin {NoneStr, Chamador.username}
    /\ ultimo.ret = "False"

\* C2 (amended): a row inserted while user U was logged in has U's username as
\* owner, and an edit by U that supplies at least one field, with values
\* editar_almoxafire accepts, or a delete by U, returns True (and the delete
\* removes the row).
C2_AutorEditaEExclui ==
    /\ \A k \in DOMAIN origem :
          origem[k].por # NoneStr => origem[k].usuario = origem[k].por
    /\ ( /\ ExisteAlvo
         /\ ultimo.antes.origem[ChaveAlvo].por # NoneStr
         /\ ultimo.antes.origem[ChaveAlvo].por = Chamador.username
         /\ Fornecido
         /\ ValoresValidos )
       => /\ ultimo.ret = "True"
          /\ ultimo.op \in Exclusoes => ~AlvoPersiste

\* C2 witness: a USUARIO edited, with a field, the row they inserted and got True.
C2_Witness ==
    /\ ExisteAlvo
    /\ ultimo.op \in Edicoes
    /\ Chamador.tipo = "USUARIO"
    /\ ultimo.antes.origem[ChaveAlvo].por = Chamador.username
    /\ ultimo.ret = "True"

\* C2 as stated: every edit by the author that supplies at least one field, and
\* every delete by the author, returns True.
C2_Original ==
    ( /\ ExisteAlvo
      /\ ultimo.antes.origem[ChaveAlvo].por # NoneStr
      /\ ultimo.antes.origem[ChaveAlvo].por = Chamador.username
      /\ Fornecido )
    => ultimo.ret = "True"

\* C3 (amended): when the session is ADMINISTRADOR, an edit of a stored row that
\* supplies at least one field, with values editar_almoxafire accepts, or a
\* delete of a stored row, returns True whoever owns the row, a row without
\* owner included (and the delete removes the row).
C3_AdministradorPodeTudo ==
    (ExisteAlvo /\ Chamador.tipo = "ADMINISTRADOR" /\ Fornecido /\ ValoresValidos)
    => /\ ultimo.ret = "True"
       /\ ultimo.op \in Exclusoes => ~AlvoPersiste

\* C3 witness: an ADMINISTRADOR deleted or edited a row without owner and got True.
C3_Witness ==
    /\ ExisteAlvo
    /\ Chamador.tipo = "ADMINISTRADOR"
    /\ Alvo.usuario = NoneStr
    /\ ultimo.ret = "True"

\* C3 as stated: every edit by an ADMINISTRADOR that supplies at least one
\* field, and every delete, of a stored row returns True.
C3_Original ==
    (ExisteAlvo /\ Chamador.tipo = "ADMINISTRADOR" /\ Fornecido)
    => ultimo.ret = "True"

\* C4: every stored row of a gated table has the owner and the created_at its
\* insert assigned.
C4_ProvenienciaImutavel ==
    \A k \in Chaves(registros, MONITORAMENTO, ALMOXAFIRE, EPIS) :
        LET row == Row(TabelaEm(Estado, k[1]), k[2])
        IN  /\ row.usuario = origem[k].usuario
            /\ row.created_at = origem[k].created_at

\* C4 witness: an edit by someone other than the owner changed the row.
C4_Witness ==
    /\ ExisteAlvo
    /\ ultimo.op \in Edicoes
    /\ ultimo.ret = "True"
    /\ Chamador.username # Alvo.usuario
    /\ AlvoPersiste
    /\ AlvoAgora # Alvo

\* What a create, edit or delete that went through leaves in its table.
Efetivado ==
    CASE ultimo.op \in Criacoes ->
             /\ ultimo.ret = "id"
             /\ Has(TabelaEm(Estado, TabelaDe(ultimo.op)), ultimo.rid)
             /\ ~Has(TabelaEm(ultimo.antes, TabelaDe(ultimo.op)), ultimo.rid)
      [] ultimo.op \in Exclusoes ->
             /\ ultimo.ret = "True"
             /\ ~AlvoPersiste
      [] ultimo.op = "editar_registro" ->
             /\ ultimo.ret = "True"
             /\ ultimo.args[1] # NoneInt => AlvoAgora.quantidade = ultimo.args[1]
             /\ ultimo.args[2] # NoneStr => AlvoAgora.setor_responsavel = ultimo.args[2]
      [] ultimo.op = "editar_monitoramento" ->
             /\ ultimo.ret = "True"
             /\ ultimo.args[1] # NoneStr
                   => AlvoAgora.responsavel = upper(strip(ultimo.args[1]))
             /\ ultimo.args[2] # NoneStr => AlvoAgora.setor = strip(ultimo.args[2])
      [] ultimo.op = "editar_almoxafire" ->
             /\ ultimo.ret = "True"
             /\ ultimo.args[1] # NoneStr => AlvoAgora.setor = upper(strip(ultimo.args[1]))
             /\ ultimo.args[6] # NoneInt => AlvoAgora.quantidade = ultimo.args[6]

\* C5: when the audit write of a create, edit or delete fails, the call still
\* returns its normal result (the new id, or True), its change is in the
\* store, and nothing is written to the audit table.
C5_AuditoriaNaoBloqueia ==
    (ultimo.op \in Criacoes \cup Edicoes \cup Exclusoes /\ ultimo.aud = "falhou")
    => /\ Efetivado
       /\ AUDIT_LOGS = ultimo.antes.AUDIT_LOGS

\* C5 witness: a delete whose audit write failed returned True.
C5_Witness ==
    /\ ultimo.op \in Exclusoes
    /\ ultimo.aud = "falhou"
    /\ ultimo.ret = "True"
    /\ ExisteAlvo

\* The tipo the audit row of a call should carry.
TipoDe(op) ==
    IF op \in Criacoes THEN t_input
    ELSE IF op \in Consultas_ THEN t_consulta
    ELSE t_alteracao_acento

\* C6 as stated: with the audit store available, after every salvar_*,
\* consultar_*, editar_* or excluir_* call of an entity that succeeded the
\* audit table holds one more row, with the session username and the tipo of
\* the operation.
C6_Original ==
    ( /\ ultimo.op \in Criacoes \cup Consultas_ \cup Edicoes \cup Exclusoes
      /\ ultimo.ret \in {"id", "rows", "True"}
      /\ auditoria_disponivel )
    => /\ Len(AUDIT_LOGS) = Len(ultimo.antes.AUDIT_LOGS) + 1
       /\ AUDIT_LOGS[Len(AUDIT_LOGS)].usuario = Chamador.username
       /\ AUDIT_LOGS[Len(AUDIT_LOGS)].tipo = TipoDe(ultimo.op)

\* C7: no step changes or removes a row of the audit table: the table after
\* the step begins with the table before it.
C7_SomenteAcrescenta ==
    [][ /\ Len(AUDIT_LOGS') >= Len(AUDIT_LOGS)
        /\ SubSeq(AUDIT_LOGS', 1, Len(AUDIT_LOGS)) = AUDIT_LOGS ]_vars

\* C7 witness: excluir_usuario deleted a user whom an audit row names, and the
\* row is still there.
C7_Witness ==
    /\ ultimo.op = "excluir_usuario"
    /\ ultimo.ret = "True"
    /\ \E i \in 1..Len(AUDIT_LOGS) : AUDIT_LOGS[i].usuario = ultimo.args[1]
    /\ AUDIT_LOGS = ultimo.antes.AUDIT_LOGS

TiposValidos == {t_input, t_output, t_consulta, t_alteracao_acento}

\* C8: every stored audit row has a tipo among input, output, consulta and
\* alteração; the row salvar_auditoria stores carries the tipo given, lower
\* case and trimmed, with alteracao stored as alteração and any other tipo
\* outside the four stored as consulta.
C8_TipoNormalizado ==
    /\ \A i \in 1..Len(AUDIT_LOGS) : AUDIT_LOGS[i].tipo \in TiposValidos
    /\ (ultimo.op = "salvar_auditoria" /\ ultimo.ret = "id" /\ ultimo.rid > 0)
       => LET dado == lower(strip(ultimo.args[2]))
              gravado == AUDIT_LOGS[Len(AUDIT_LOGS)].tipo
          IN  /\ Len(AUDIT_LOGS) = Len(ultimo.antes.AUDIT_LOGS) + 1
              /\ dado \in TiposValidos => gravado = dado
              /\ dado = t_alteracao => gravado = t_alteracao_acento
              /\ dado \notin TiposValidos \cup {t_alteracao} => gravado = t_consulta

\* C8 witness: salvar_auditoria stored a row for a tipo outside the four.
C8_Witness ==
    /\ ultimo.op = "salvar_auditoria"
    /\ ultimo.rid > 0
    /\ lower(strip(ultimo.args[2])) \notin TiposValidos \cup {t_alteracao}
    /\ AUDIT_LOGS[Len(AUDIT_LOGS)].tipo = t_consulta

\* C9: after excluir_epi(id) returned True no item of id is stored,
\* listar_itens_de_epi(id) returns the empty list, and the items of the other
\* PPE records are the ones stored before; a later listar_itens_de_epi of an id
\* without record returns the empty list too.
C9_ExclusaoEmCascata ==
    /\ (ultimo.op = "excluir_epi" /\ ultimo.ret = "True")
       => /\ \A it \in EPIS_ITENS : it.epi_id # ultimo.id
          /\ listar_itens_de_epi(EPIS_ITENS, ultimo.id) = [ret |-> "rows", rows |-> <<>>]
          /\ EPIS_ITENS = {it \in ultimo.antes.EPIS_ITENS : it.epi_id # ultimo.id}
    /\ (ultimo.op = "listar_itens_de_epi" /\ ~Has(EPIS, ultimo.id))
       => ultimo.rows = <<>>

\* C9 witness: excluir_epi deleted a record that had items while another
\* record had items too.
C9_Witness ==
    /\ ultimo.op = "excluir_epi"
    /\ ultimo.ret = "True"
    /\ \E it \in ultimo.antes.EPIS_ITENS : it.epi_id = ultimo.id
    /\ \E it \in ultimo.antes.EPIS_ITENS : it.epi_id # ultimo.id
    /\ EPIS_ITENS # {}

\* What the caller of an edit or delete can observe of outcome r on table tab:
\* what it returned or raised, whether the table changed, whether the audit
\* table did.
Observacao(r, tab) == <<r.ret, r.tab = tab, r.log = AUDIT_LOGS>>

Negado == <<"False", TRUE, TRUE>>

\* C10: for a session that is not ADMINISTRADOR and a stored row of another
\* owner, every edit and delete of the row's id gives the same observation on
\* the store as it is and on the store without the row: False, nothing
\* raised, the table unchanged, no audit row; and every such call made
\* returned False and left the store and the audit table as they were.
C10_NegadoComoInexistente ==
    /\ CurrentUser.tipo # "ADMINISTRADOR" =>
       /\ \A row \in {x \in registros : x.usuario # CurrentUser.username} :
          /\ \A q \in {NoneInt, 2}, s \in {NoneStr, <<"A">>} :
                /\ Observacao(editar_registro(registros, AUDIT_LOGS, row.id, q, s, TRUE),
                              registros) = Negado
                /\ Observacao(editar_registro(registros \ {row}, AUDIT_LOGS, row.id, q, s,
                                              TRUE), registros \ {row}) = Negado
          /\ Observacao(excluir_registro(registros, AUDIT_LOGS, row.id, TRUE),
                        registros) = Negado
          /\ Observacao(excluir_registro(registros \ {row}, AUDIT_LOGS, row.id, TRUE),
                        registros \ {row}) = Negado
       /\ \A row \in {x \in MONITORAMENTO : x.usuario # CurrentUser.username} :
          /\ \A resp \in {NoneStr, <<" ", "x">>}, s \in {NoneStr, <<"s", " ">>} :
                /\ Observacao(editar_monitoramento(MONITORAMENTO, AUDIT_LOGS, row.id, resp,
                                                   s, NoneStr, TRUE), MONITORAMENTO) = Negado
                /\ Observacao(editar_monitoramento(MONITORAMENTO \ {row}, AUDIT_LOGS, row.id,
                                                   resp, s, NoneStr, TRUE),
                              MONITORAMENTO \ {row}) = Negado
          /\ Observacao(excluir_monitoramento(MONITORAMENTO, AUDIT_LOGS, row.id, TRUE),
                        MONITORAMENTO) = Negado
          /\ Observacao(excluir_monitoramento(MONITORAMENTO \ {row}, AUDIT_LOGS, row.id,
                                              TRUE), MONITORAMENTO \ {row}) = Negado
       /\ \A row \in {x \in ALMOXAFIRE : x.usuario # CurrentUser.username} :
          /\ \A s \in {NoneStr, <<"s">>}, m \in {NoneInt, BadInt}, q \in {NoneInt, 0, 2} :
                /\ Observacao(editar_almoxafire(ALMOXAFIRE, AUDIT_LOGS, row.id, s, NoneStr,
                                                m, NoneStr, NoneStr, q, NoneStr, TRUE),
                              ALMOXAFIRE) = Negado
                /\ Observacao(editar_almoxafire(ALMOXAFIRE \ {row}, AUDIT_LOGS, row.id, s,
                                                NoneStr, m, NoneStr, NoneStr, q, NoneStr,
                                                TRUE), ALMOXAFIRE \ {row}) = Negado
          /\ Observacao(excluir_almoxafire(ALMOXAFIRE, AUDIT_LOGS, row.id, TRUE),
                        ALMOXAFIRE) = Negado
          /\ Observacao(excluir_almoxafire(ALMOXAFIRE \ {row}, AUDIT_LOGS, row.id, TRUE),
                        ALMOXAFIRE \ {row}) = Negado
       /\ \A row \in {x \in EPIS : x.usuario # CurrentUser.username} :
          LET outros == {it \in EPIS_ITENS : it.epi_id # row.id}
              com == excluir_epi(EPIS, EPIS_ITENS, AUDIT_LOGS, row.id, TRUE)
              sem == excluir_epi(EPIS \ {row}, outros, AUDIT_LOGS, row.id, TRUE)
          IN  /\ Observacao(com, EPIS) = Negado /\ com.itens = EPIS_ITENS
              /\ Observacao(sem, EPIS \ {row}) = Negado /\ sem.itens = outros
    /\ ( /\ Mutacao
         /\ Chamador.tipo # "ADMINISTRADOR"
         /\ ~ExisteAlvo \/ Alvo.usuario # Chamador.username )
       => /\ ultimo.ret = "False"
          /\ ultimo.aud = "nao"
          /\ [Estado EXCEPT !.origem = <<>>] = [ultimo.antes EXCEPT !.origem = <<>>]

\* C10 witness: a logged-in USUARIO got False from a delete of an id that names
\* no row, while a row of another user is stored in another table.
C10_Witness ==
    /\ ultimo.op \in Exclusoes
    /\ ~ExisteAlvo
    /\ Chamador.tipo = "USUARIO"
    /\ ultimo.ret = "False"
    /\ \E k \in DOMAIN origem : origem[k].usuario \notin {NoneStr, Chamador.username}

(* ------------------------------- C11 ----------------------------------- *)

Filtrados == ultimo.op = "consultar_registros_filtrados"

\* The ids a range query returned.
IdsDevolvidos == {ultimo.rows[i].id : i \in 1..Len(ultimo.rows)}

\* The end bound is a day and nothing else: date.fromisoformat reads it.
FimSoData(basico) == date_fromisoformat(ultimo.args[2], basico) # <<>>

\* The last second of the day the end bound names.
FimDoDia(basico) ==
    date_fromisoformat(ultimo.args[2], basico) \o <<23, 59, 59, 0>>

\* The stored rows between the start bound, when one is given, and the
\* instant fim, whose motivo holds the substring asked for.
EsperadosAte(fim, basico) ==
    {r.id : r \in {r \in ultimo.antes.registros :
        /\ antes_ou_igual(r.created_at, fim)
        /\ informado(ultimo.args[1]) =>
               antes_ou_igual(datetime_fromisoformat(ultimo.args[1], basico), r.created_at)
        /\ informado(ultimo.args[3]) =>
               like_contem(lower(r.motivo), lower(ultimo.args[3]))}}

InicioValido(basico) ==
    informado(ultimo.args[1]) => datetime_fromisoformat(ultimo.args[1], basico) # <<>>

\* C11, for an end bound written YYYY-MM-DD: consultar_registros_filtrados
\* returns exactly the records created from the start bound up to 23:59:59 of
\* that day (those of its last second included, those of the next day not).
C11_FimDoDia_AAAA_MM_DD ==
    Filtrados /\ Len(ultimo.args[2]) = 10 /\ FimSoData(ultimo.args[4])
        /\ InicioValido(ultimo.args[4])
    => /\ ultimo.ret = "rows"
       /\ IdsDevolvidos = EsperadosAte(FimDoDia(ultimo.args[4]), ultimo.args[4])

\* A query up to 2024-01-01 returned the record of 23:59:59 and not the one
\* of the next midnight, both stored.
C11_Witness ==
    /\ Filtrados /\ ultimo.args[2] = D_2024_01_01 /\ ultimo.ret = "rows"
    /\ \E r \in ultimo.antes.registros :
          r.created_at = T_ultimo_segundo /\ r.id \in IdsDevolvidos
    /\ \E r \in ultimo.antes.registros :
          r.created_at = T_seguinte /\ r.id \notin IdsDevolvidos

\* C11 as stated, for every end bound that is a day with no time: the
\* records returned are exactly those created from the start bound up to
\* 23:59:59 of that day.
C11_Original ==
    Filtrados /\ FimSoData(ultimo.args[4]) /\ InicioValido(ultimo.args[4])
    => /\ ultimo.ret = "rows"
       /\ IdsDevolvidos = EsperadosAte(FimDoDia(ultimo.args[4]), ultimo.args[4])


(* ------------------------------- C12 ----------------------------------- *)

ConsultasPorCriacao == {"consultar_registros_filtrados", "consultar_almoxafire"}

ConsultasPorDataRef ==
    {"consultar_epis_por_periodo", "consultar_epis_por_matricula",
     "consultar_consolidado_por_periodo"}

ConsultaPorPeriodo == ultimo.op \in ConsultasPorCriacao \cup ConsultasPorDataRef

\* The day a bound names for the query made (an instant for the queries on
\* created_at, a day for those on data_ref), <<>> when the bound is malformed.
DiaDoLimite(texto) ==
    LET lido == datetime_fromisoformat(texto, ultimo.args[4])
    IN  IF ultimo.op \in ConsultasPorDataRef
        THEN date_fromisoformat(texto, ultimo.args[4])
        ELSE IF lido = <<>> THEN <<>> ELSE SubSeq(lido, 1, 3)

Malformado(texto) == informado(texto) /\ DiaDoLimite(texto) = <<>>

\* Both bounds are well formed and the start day is after the end day.
PeriodoInvertido ==
    /\ informado(ultimo.args[1]) /\ informado(ultimo.args[2])
    /\ ~Malformado(ultimo.args[1]) /\ ~Malformado(ultimo.args[2])
    /\ ~antes_ou_igual(DiaDoLimite(ultimo.args[1]), DiaDoLimite(ultimo.args[2]))

\* The matricula of consultar_epis_por_matricula is read before the bounds.
MatriculaLida == ultimo.op = "consultar_epis_por_matricula" => ~int_falha(ultimo.id)

LevantouValueError ==
    ultimo.ret \in {erro_data_ini, erro_data_fim, erro_periodo, erro_matricula}

\* C12, the part about malformed bounds: each of the five range queries
\* raises a ValueError naming data_ini when the start bound is malformed, and
\* naming data_fim when the start bound is acceptable and the end bound is
\* malformed.
C12_LimiteMalformadoLevanta ==
    ConsultaPorPeriodo /\ MatriculaLida
    => /\ Malformado(ultimo.args[1]) => ultimo.ret = erro_data_ini
       /\ ~Malformado(ultimo.args[1]) /\ Malformado(ultimo.args[2])
              => ultimo.ret = erro_data_fim

\* consultar_consolidado_por_periodo was given a well-formed start and the
\* end 2024-01-32, and raised naming data_fim.
C12_Witness ==
    /\ ultimo.op = "consultar_consolidado_por_periodo"
    /\ ultimo.args[1] = D_2024_01_01 /\ ultimo.args[2] = D_2024_01_32
    /\ ultimo.ret = erro_data_fim

\* C12 as stated: each of the five range queries raises a ValueError naming
\* the bound when a bound is malformed, and raises a ValueError when the
\* start bound is after the end bound.
C12_Original ==
    ConsultaPorPeriodo /\ MatriculaLida
    => /\ Malformado(ultimo.args[1]) => ultimo.ret = erro_data_ini
       /\ ~Malformado(ultimo.args[1]) /\ Malformado(ultimo.args[2])
              => ultimo.ret = erro_data_fim
       /\ PeriodoInvertido => LevantouValueError


(* ------------------------------- C13 ----------------------------------- *)

Insercao == ultimo.op \in {"salvar_registro", "salvar_monitoramento", "salvar_almoxafire"}

\* Absent, empty or made of spaces only.
EmBranco(texto) == texto = NoneStr \/ \A i \in 1..Len(texto) : texto[i] = " "

\* The call gave a quantity that is not positive, or no quantity.
QuantidadeRecusavel ==
    \/ ultimo.op = "salvar_registro" /\ (ultimo.args[2] = NoneInt \/ ultimo.args[2] <= 0)
    \/ ultimo.op = "salvar_almoxafire" /\ (int_falha(ultimo.args[6]) \/ ultimo.args[6] <= 0)

\* The call left a required text field absent or blank.
CampoObrigatorioEmBranco ==
    \/ ultimo.op = "salvar_registro" /\ (EmBranco(ultimo.args[3]) \/ EmBranco(ultimo.args[4]))
    \/ ultimo.op = "salvar_monitoramento"
          /\ \E i \in 1..5 : EmBranco(ultimo.args[i])
    \/ ultimo.op = "salvar_almoxafire"
          /\ \E i \in {1, 2, 4, 5} : EmBranco(ultimo.args[i])

NadaGravado ==
    /\ ultimo.ret = "raise"
    /\ registros = ultimo.antes.registros
    /\ MONITORAMENTO = ultimo.antes.MONITORAMENTO
    /\ ALMOXAFIRE = ultimo.antes.ALMOXAFIRE

\* C13, for the inserts that validate: salvar_almoxafire with a quantity that
\* is not a positive integer or a blank required field, salvar_monitoramento
\* with a blank required field, and salvar_registro with an absent (None)
\* field raise, store no record and return no id.
C13_InsercaoValidada ==
    /\ Insercao /\ ultimo.op # "salvar_registro"
           /\ (QuantidadeRecusavel \/ CampoObrigatorioEmBranco) => NadaGravado
    /\ ultimo.op = "salvar_registro"
           /\ (NoneInt \in {ultimo.args[1], ultimo.args[2]}
               \/ NoneStr \in {ultimo.args[3], ultimo.args[4]}) => NadaGravado

\* salvar_almoxafire was given quantity 0 with all its texts filled, raised
\* and left the table as it was.
C13_Witness ==
    /\ ultimo.op = "salvar_almoxafire" /\ ultimo.args[6] = 0
    /\ ~CampoObrigatorioEmBranco /\ NadaGravado

\* C13 as stated: an insert with a non-positive quantity or a missing or
\* blank required field raises, stores no record and returns no id.
C13_Original ==
    Insercao /\ (QuantidadeRecusavel \/ CampoObrigatorioEmBranco) => NadaGravado


(* ------------------------------- C14 ----------------------------------- *)

Administrativas == {"listar_usuarios", "redefinir_senha_usuario", "excluir_usuario"}

\* C14: listar_usuarios, redefinir_senha_usuario and excluir_usuario called
\* while the session role is not ADMINISTRADOR (nobody logged in included)
\* raise, return no user data and leave every account as it was.
C14_SomenteAdministrador ==
    ultimo.op \in Administrativas /\ ultimo.antes.CurrentUser.tipo # "ADMINISTRADOR"
    => /\ ultimo.ret = "raise"
       /\ ultimo.rows = <<>>
       /\ usuarios = ultimo.antes.usuarios

\* A logged-in USUARIO asked for the deletion of another, existing USUARIO
\* account.
C14_Witness ==
    /\ ultimo.op = "excluir_usuario" /\ ultimo.antes.CurrentUser.tipo = "USUARIO"
    /\ \E u \in ultimo.antes.usuarios :
          u.username = ultimo.args[1] /\ u.tipo = "USUARIO"
          /\ u.username # ultimo.antes.CurrentUser.username

(* ------------------------------- C15 ----------------------------------- *)

\* The registration key of the environment for the role asked for ("ADM" is
\* the legacy name of ADMINISTRADOR).
ChaveDeRegistro(tipo) ==
    IF tipo \in {"ADM", "ADMINISTRADOR"} THEN getenv("REGISTRO_API_KEY_ADMINISTRADOR")
    ELSE getenv("REGISTRO_API_KEY_USUARIO")

ContaCriada == ultimo.op = "criar_usuario" /\ usuarios # ultimo.antes.usuarios

ContaAlvo == {u \in ultimo.antes.usuarios : u.username = ultimo.args[1]}

\* C16: after any redefinir_senha_usuario or excluir_usuario, by any caller,
\* every ADMINISTRADOR account is still there, and those that are not the
\* caller's own have the password hash they had; a redefinir_senha_usuario
\* naming an ADMINISTRADOR other than the caller, and an excluir_usuario
\* naming any ADMINISTRADOR, raise.
C16_AdministradorIntocavel ==
    ultimo.op \in {"redefinir_senha_usuario", "excluir_usuario"}
    => /\ \A a \in ultimo.antes.usuarios : a.tipo = "ADMINISTRADOR" =>
             /\ \E u \in usuarios : u.id = a.id /\ u.username = a.username
                                    /\ u.tipo = "ADMINISTRADOR"
             /\ a.username # ultimo.antes.CurrentUser.username => a \in usuarios
       /\ \A a \in ContaAlvo :
             /\ a.tipo = "ADMINISTRADOR"
             /\ (ultimo.op = "excluir_usuario"
                 \/ a.username # ultimo.antes.CurrentUser.username)
             => ultimo.ret = "raise"

\* A logged-in administrator asked for a new password for another
\* administrator.
C16_Witness ==
    /\ ultimo.op = "redefinir_senha_usuario" /\ ultimo.args[2] # ""
    /\ ultimo.antes.CurrentUser.tipo = "ADMINISTRADOR"
    /\ \E a \in ContaAlvo :
          a.tipo = "ADMINISTRADOR" /\ a.username # ultimo.antes.CurrentUser.username


(* ------------------------------- C17 ----------------------------------- *)

\* The account the login names and whose password is the one given, as the
\* call found the accounts.
ContaQueVerifica ==
    {u \in ultimo.antes.usuarios :
        u.username = ultimo.args[1] /\ verificar_senha(ultimo.args[2], u.senha_hash)}

\* C17: the session context is that of the most recent successful
\* autenticar_usuario (the username given, the id and role of its account), or
\* anonymous when none succeeded; autenticar_usuario returns True exactly when
\* the account exists and the password verifies, and a call that returns
\* False leaves the session context as it was.
C17_IdentidadeDaSessao ==
    /\ CurrentUser = autenticado
    /\ ultimo.op = "autenticar_usuario" =>
          /\ ultimo.ret = "True" <=> ContaQueVerifica # {}
          /\ ultimo.ret \in {"True", "False"}
          /\ ultimo.ret = "True" => \E u \in ContaQueVerifica :
                CurrentUser = [username |-> u.username, user_id |-> u.id, tipo |-> u.tipo]
          /\ ultimo.ret = "False" => CurrentUser = ultimo.antes.CurrentUser

\* With bob logged in, a login as alice with a wrong password failed, alice
\* having an account, and the session is still bob's.
C17_Witness ==
    /\ ultimo.op = "autenticar_usuario" /\ ultimo.ret = "False"
    /\ ultimo.args[1] = Alice /\ \E u \in ultimo.antes.usuarios : u.username = Alice
    /\ ultimo.antes.CurrentUser.username = Bob
    /\ CurrentUser.username = Bob


(* ------------------------------- C18 ----------------------------------- *)

InsercaoComId == ultimo.op \in Criacoes /\ ultimo.ret = "id"

\* C18, the uniqueness part: no two stored records of one entity kind have
\* the same id, and an insert returns an id no stored record of its kind had.
C18_IdsUnicos ==
    /\ \A t \in Gated : \A a, b \in TabelaEm(Estado, t) : a.id = b.id => a = b
    /\ InsercaoComId => ~Has(TabelaEm(ultimo.antes, TabelaDe(ultimo.op)), ultimo.rid)

\* Two Blocked-Item records are stored, the second insert having just
\* returned.
C18_Witness ==
    /\ ultimo.op = "salvar_registro" /\ ultimo.ret = "id"
    /\ Cardinality(registros) = 2

\* C18 as stated: each insert returns an id strictly greater than every id
\* returned before for its entity kind.
C18_Original ==
    InsercaoComId => ultimo.rid > ultimo.antes.maior_id[TabelaDe(ultimo.op)]


(* ------------------------------- C19 ----------------------------------- *)

\* The processes that have sent their INSERT.
ComLinha == {p \in Processos : processo[p].row # <<>>}

\* No two processes were given the same id, no process was given the id of a
\* record already stored by another, and the record of a process that has
\* committed is stored.
IdsDistintos ==
    /\ \A p, q \in ComLinha : p # q => processo[p].row[1].id # processo[q].row[1].id
    /\ \A p \in Processos :
          processo[p].pc \in {"efetivado", "auditado", "retornou"}
          => processo[p].row[1] \in registros

AmbosRetornaram == \A p \in Processos : processo[p].pc = "retornou"

EdicaoAutorizada ==
    /\ ultimo.op \in Edicoes
    /\ ExisteAlvo
    /\ Chamador.tipo = "ADMINISTRADOR" \/ Alvo.usuario = Chamador.username

\* v when the argument was supplied, the stored value otherwise.
SeDado(arg, nulo, v, guardado) == IF arg # nulo THEN v ELSE guardado

\* The row an edit should leave: each supplied field at its normalized value
\* (text trimmed, setor and responsavel in upper case, a blank observacao of a
\* Supply-Room record as None), every other field as it was.
LinhaEsperada ==
    LET a == ultimo.args
    IN  CASE ultimo.op = "editar_registro" ->
                 [Alvo EXCEPT !.quantidade = SeDado(a[1], NoneInt, a[1], @),
                              !.setor_responsavel = SeDado(a[2], NoneStr, a[2], @)]
          [] ultimo.op = "editar_monitoramento" ->
                 [Alvo EXCEPT !.responsavel = SeDado(a[1], NoneStr, upper(strip(a[1])), @),
                              !.setor = SeDado(a[2], NoneStr, strip(a[2]), @),
                              !.observacao = SeDado(a[3], NoneStr, a[3], @)]
          [] ultimo.op = "editar_almoxafire" ->
                 [Alvo EXCEPT !.setor = SeDado(a[1], NoneStr, upper(strip(a[1])), @),
                              !.turno = SeDado(a[2], NoneStr, strip(a[2]), @),
                              !.matricula = SeDado(a[3], NoneInt, a[3], @),
                              !.responsavel = SeDado(a[4], NoneStr, upper(strip(a[4])), @),
                              !.insumo = SeDado(a[5], NoneStr, strip(a[5]), @),
                              !.quantidade = SeDado(a[6], NoneInt, a[6], @),
                              !.observacao =
                                  SeDado(a[7], NoneStr,
                                         IF strip(a[7]) = <<>> THEN NoneStr
                                         ELSE upper(strip(a[7])), @)]

TabelaDoAlvo == TabelaEm(Estado, TabelaDe(ultimo.op))

TabelaDoAlvoAntes == TabelaEm(ultimo.antes, TabelaDe(ultimo.op))

\* C20, amended: an edit of an existing record by an authorized caller that
\* supplies at least one field, with values the edit accepts, returns True and
\* leaves the record with exactly the supplied fields changed to their
\* normalized values; with no field supplied it returns False, with a
\* matricula or quantidade editar_almoxafire rejects it raises, and in both
\* cases the record is as it was.  No other record changes.
C20_EdicaoParcial ==
    EdicaoAutorizada
    => /\ Fornecido /\ ValoresValidos
            => /\ ultimo.ret = "True"
               /\ TabelaDoAlvo = (TabelaDoAlvoAntes \ {Alvo}) \cup {LinhaEsperada}
       /\ ~Fornecido => ultimo.ret = "False" /\ TabelaDoAlvo = TabelaDoAlvoAntes
       /\ ~ValoresValidos => ultimo.ret = "raise" /\ TabelaDoAlvo = TabelaDoAlvoAntes

\* The author edited responsavel, insumo and quantidade of a Supply-Room
\* record: the three are changed, responsavel in upper case and insumo
\* trimmed, and setor, turno, matricula and observacao are as they were.
C20_Witness ==
    /\ ultimo.op = "editar_almoxafire" /\ ultimo.ret = "True" /\ ExisteAlvo
    /\ ultimo.args[4] = <<"n", "o">> /\ ultimo.args[5] = <<" ", "k">>
    /\ Chamador.username = Alvo.usuario /\ Chamador.tipo = "USUARIO"
    /\ AlvoAgora.responsavel = <<"N", "O">> /\ AlvoAgora.insumo = <<"k">>
    /\ AlvoAgora.quantidade = 2 /\ Alvo.quantidade = 1
    /\ AlvoAgora.setor = Alvo.setor /\ AlvoAgora.observacao = Alvo.observacao

\* C20 as stated: an edit of an existing record by an authorized caller does
\* not return False, and leaves the record with exactly the supplied fields
\* changed to their normalized values.
C20_Original ==
    EdicaoAutorizada
    => /\ ultimo.ret # "False"
       /\ TabelaDoAlvo = (TabelaDoAlvoAntes \ {Alvo}) \cup {LinhaEsperada}


(* ------------------------------- C21 ----------------------------------- *)

\* The columns init_db adds to the tables of older files.
ColunasMigradas ==
    { <<"registros", "usuario">>, <<"registros", "usuario_id">>,
      <<"MONITORAMENTO", "usuario">>, <<"ALMOXAFIRE", "usuario">>,
      <<"configuracoes_api", "valor">> }

\* The statements the init_db that has just run executed.
DDL == ultimo.rows

Executou(st) == \E i \in 1..Len(DDL) : DDL[i] = st

\* A CONSOLIDADO table of the old format.
FormatoAntigo(esq) ==
    "conteudo" \in esq["CONSOLIDADO"] /\ "arm." \notin esq["CONSOLIDADO"]

\* A file init_db has nothing to do on.
Migrado(esq) ==
    /\ \A t \in DOMAIN Base_metadata : esq[t] # {}
    /\ \A c \in ColunasMigradas : c[2] \in esq[c[1]]
    /\ ~FormatoAntigo(esq)

DadosDasTabelas(e) ==
    <<e.usuarios, e.registros, e.MONITORAMENTO, e.ALMOXAFIRE, e.EPIS, e.EPIS_ITENS,
      e.AUDIT_LOGS, e.configuracoes_api>>

\* C21: init_db executes an ADD COLUMN only for one of the five migrated
\* columns, only when the table lacked it, and once; it leaves every one of
\* them in place and removes no column; the only statement that removes
\* anything is the DROP of a CONSOLIDADO table with a 'conteudo' column and
\* no 'arm.' column, and no other row of the store changes; on a migrated
\* file it executes nothing and leaves schema and rows as they were; the file
\* it leaves is a migrated one.
C21_MigracaoAditivaIdempotente ==
    ultimo.op = "init_db"
    => LET era == ultimo.antes.esquema
       IN  /\ \A i \in 1..Len(DDL) :
                  \/ /\ DDL[i][1] = "ADD COLUMN"
                     /\ <<DDL[i][2], DDL[i][3]>> \in ColunasMigradas
                     /\ DDL[i][3] \notin era[DDL[i][2]]
                     /\ \A j \in 1..Len(DDL) : DDL[j] = DDL[i] => j = i
                  \/ /\ DDL[i] = <<"DROP TABLE", "CONSOLIDADO", "">>
                     /\ FormatoAntigo(era)
           /\ \A t \in DOMAIN Base_metadata :
                  (t = "CONSOLIDADO" /\ FormatoAntigo(era)) \/ era[t] \subseteq esquema[t]
           /\ CONSOLIDADO # ultimo.antes.CONSOLIDADO
                  => FormatoAntigo(era) /\ CONSOLIDADO = {}
           /\ DadosDasTabelas(Estado) = DadosDasTabelas(ultimo.antes)
           /\ Migrado(era)
                  => DDL = <<>> /\ esquema = era /\ CONSOLIDADO = ultimo.antes.CONSOLIDADO
           /\ Migrado(esquema)

\* init_db ran on a file that had a Blocked-Item row, lacked the five columns
\* and had a CONSOLIDADO table of the old format with a row: it dropped that
\* table, created the new one, added the five columns and kept the row of
\* registros.
C21_Witness ==
    /\ ultimo.op = "init_db"
    /\ Len(DDL) = 6
    /\ Executou(<<"DROP TABLE", "CONSOLIDADO", "">>)
    /\ ultimo.antes.CONSOLIDADO # {} /\ CONSOLIDADO = {}
    /\ esquema["CONSOLIDADO"] = Base_metadata["CONSOLIDADO"]
    /\ registros = {RegistroAntigo}
    /\ "usuario" \notin ultimo.antes.esquema["registros"]


(* ------------------------------- C22 ----------------------------------- *)

\* The ids of the rows of table t that were stored when the call in progress
\* was made and are not stored now.
Sairam(t) == Ids(TabelaEm(ultimo.antes, t)) \ Ids(TabelaEm(Estado, t))

\* The call in progress is a delete of row id of table t that the gate let
\* through.
ExclusaoPeloPortao(t, id) ==
    /\ ultimo.op \in Exclusoes
    /\ TabelaDe(ultimo.op) = t
    /\ ultimo.id = id
    /\ \/ Chamador.tipo = "ADMINISTRADOR"
       \/ Row(TabelaEm(ultimo.antes, t), id).usuario = Chamador.username

\* The call in progress is an administrator's excluir_usuario of the account
\* whose id row id of registros carries in usuario_id.
ExclusaoDoAutor(t, id) ==
    /\ t = "registros"
    /\ ultimo.op = "excluir_usuario"
    /\ ultimo.ret = "True"
    /\ Chamador.tipo = "ADMINISTRADOR"
    /\ \E u \in ultimo.antes.usuarios :
          /\ u.username = ultimo.args[1]
          /\ u \notin usuarios
          /\ Row(ultimo.antes.registros, id).usuario_id = u.id

\* C22, as the code has it: a Monitoring, Supply-Room or PPE record leaves the
\* store only through its delete call passing the gate; a Blocked-Item record
\* leaves through excluir_registro passing the gate, or with the account that
\* created it when an administrator deletes that account.
C22_SaidaDosRegistros ==
    ultimo.op # "ocioso"
    => \A t \in Gated : \A id \in Sairam(t) :
           ExclusaoPeloPortao(t, id) \/ ExclusaoDoAutor(t, id)

\* An administrator deleted the account of a user and the Blocked-Item record
\* that user had saved left the store with it.
C22_Witness ==
    /\ ultimo.op = "excluir_usuario"
    /\ ultimo.ret = "True"
    /\ ultimo.antes.registros # {}
    /\ registros = {}
    /\ \A r \in ultimo.antes.registros : r.usuario = ultimo.args[1]

\* C22 as stated: a record of a gated table leaves the store only through a
\* delete call on that record that passed the gate.
C22_Original ==
    ultimo.op # "ocioso"
    => \A t \in Gated : \A id \in Sairam(t) : ExclusaoPeloPortao(t, id)


(* ------------------------------- C23 ----------------------------------- *)

Substituiu == ultimo.op = "substituir_consolidado_linhas_por_data"

\* The lines of date d in table tab, without their ids.
LinhasDe(tab, d) ==
    {[arm_ |-> r.arm_, descricao_filial |-> r.descricao_filial] : r \in {x \in tab : x.data_ref = d}}

DeOutrasDatas(tab, d) == {r \in tab : r.data_ref # d}

\* What the call should store for (d, L): the cells of each line, read as
\* salvar_consolidado_linhas reads them.
Construidas(L) ==
    {[arm_ |-> try_int(L[i].arm),
      descricao_filial |-> IF L[i].filial = <<>> THEN NoneStr ELSE L[i].filial]
        : i \in 1..Len(L)}

\* C23, the part that holds: salvar_consolidado_linhas(d, L) adds one row per
\* line of L under date d, removes none and returns their number; and
\* substituir_consolidado_linhas_por_data removes no stored row at all: when it
\* returns it has done what salvar_consolidado_linhas does, when it raises the
\* table is as it was.
C23_NadaERemovido ==
    ultimo.op \in {"salvar_consolidado_linhas", "substituir_consolidado_linhas_por_data"}
    => LET d == ultimo.args[1]
           L == ultimo.args[2]
           era == ultimo.antes.CONSOLIDADO
       IN  IF ultimo.ret = "raise" THEN CONSOLIDADO = era
           ELSE /\ ultimo.rid = Len(L)
                /\ era \subseteq CONSOLIDADO
                /\ Cardinality(CONSOLIDADO \ era) = Len(L)
                /\ LinhasDe(CONSOLIDADO \ era, d) = Construidas(L)
                /\ DeOutrasDatas(CONSOLIDADO, d) = DeOutrasDatas(era, d)

\* A replace of a date that had a line, with a sheet of two lines, on the
\* store of the default configuration: it raised and the old line is stored.
C23_Witness ==
    /\ Substituiu
    /\ ultimo.args[3]
    /\ Len(ultimo.args[2]) = 2
    /\ LinhasDe(ultimo.antes.CONSOLIDADO, ultimo.args[1]) = Construidas(<<Linha_B>>)
    /\ ultimo.ret = "raise"
    /\ CONSOLIDADO = ultimo.antes.CONSOLIDADO

\* C23 as stated: when the replace returns, the lines stored for d are exactly
\* those built from L, the lines of other dates are as they were and the
\* count returned is the number of lines of L; when it does not return, the
\* table is as it was.
C23_Original ==
    Substituiu
    => LET d == ultimo.args[1]
           L == ultimo.args[2]
           era == ultimo.antes.CONSOLIDADO
       IN  IF ultimo.ret = "raise" THEN CONSOLIDADO = era
           ELSE /\ ultimo.rid = Len(L)
                /\ LinhasDe(CONSOLIDADO, d) = Construidas(L)
                /\ Cardinality({r \in CONSOLIDADO : r.data_ref = d}) = Len(L)
                /\ DeOutrasDatas(CONSOLIDADO, d) = DeOutrasDatas(era, d)


(* ------------------------------- C24 ----------------------------------- *)

\* The positions of the items of the catalog given whose code and product are
\* not blank.
Validos(itens) ==
    {i \in 1..Len(itens) : strip(itens[i].codigo) # <<>> /\ strip(itens[i].produto) # <<>>}

\* Two of them have the same code.
CodigosDuplicados(itens) ==
    \E i, j \in Validos(itens) : i # j /\ strip(itens[i].codigo) = strip(itens[j].codigo)

\* The catalog, without the ids.
Entradas(tab) == {[codigo |-> r.codigo, produto |-> r.produto, valor |-> r.valor] : r \in tab}

\* C24: no two entries of the catalog share a code; and a
\* substituir_configuracoes_api given items two of which, with code and product
\* not blank, have the same code raises and leaves the catalog as it was, and
\* otherwise leaves a catalog that holds exactly one entry for each item with
\* code and product not blank, and returns their number.
C24_CatalogoSemCodigosRepetidos ==
    /\ \A r1, r2 \in configuracoes_api : r1.codigo = r2.codigo => r1 = r2
    /\ ultimo.op = "substituir_configuracoes_api"
       => LET itens == ultimo.args[1]
          IN  IF CodigosDuplicados(itens)
              THEN /\ ultimo.ret = "raise"
                   /\ configuracoes_api = ultimo.antes.configuracoes_api
              ELSE /\ ultimo.ret = "len"
                   /\ ultimo.rid = Cardinality(Validos(itens))
                   /\ Cardinality(configuracoes_api) = Cardinality(Validos(itens))
                   /\ Entradas(configuracoes_api) =
                          {[codigo |-> strip(itens[i].codigo),
                            produto |-> strip(itens[i].produto),
                            valor |-> itens[i].valor] : i \in Validos(itens)}

\* A catalog of two entries was replaced by one given with the code a twice,
\* once with padding: the call raised and the two entries are still there.
C24_Witness ==
    /\ ultimo.op = "substituir_configuracoes_api"
    /\ Cardinality(ultimo.antes.configuracoes_api) = 2
    /\ Len(ultimo.args[1]) = 2
    /\ ultimo.args[1][1].codigo = <<"a">> /\ ultimo.args[1][2].codigo = <<" ", "a">>
    /\ ultimo.ret = "raise"
    /\ configuracoes_api = ultimo.antes.configuracoes_api


(* ------------------------------- C25 ----------------------------------- *)

\* The role asked for, 'ADM' read as ADMINISTRADOR.
PapelPedido == IF ultimo.args[3] = "ADM" THEN "ADMINISTRADOR" ELSE ultimo.args[3]

\* The registration key configured for a role: the variable of the role, or,
\* when it is not set, the one of the older name; "" when neither is set.
ChaveConfigurada(papel) ==
    IF papel = "ADMINISTRADOR"
    THEN IF ambiente["REGISTRO_API_KEY_ADMINISTRADOR"] # ""
         THEN ambiente["REGISTRO_API_KEY_ADMINISTRADOR"]
         ELSE ambiente["REGISTRO_API_KEY_ADM"]
    ELSE IF ambiente["REGISTRO_API_KEY_USUARIO"] # ""
         THEN ambiente["REGISTRO_API_KEY_USUARIO"]
         ELSE ambiente["REGISTRO_API_KEY"]

\* C25: criar_usuario creates an account, of the role asked for, exactly when
\* that role is USUARIO or ADMINISTRADOR, a key is configured for it, the
\* api_key given equals that key, the username is not blank and not taken and
\* the password is not empty; in every other case it raises and creates no
\* account.  Every stored account has role USUARIO or ADMINISTRADOR and no two
\* have the same username.
C25_RegraDaChave ==
    /\ \A u \in usuarios : u.tipo \in {"USUARIO", "ADMINISTRADOR"}
    /\ \A u1, u2 \in usuarios : u1.username = u2.username => u1 = u2
    /\ ultimo.op = "criar_usuario"
       => LET nome == strip(ultimo.args[1])
              permitido == /\ PapelPedido \in {"USUARIO", "ADMINISTRADOR"}
                           /\ ChaveConfigurada(PapelPedido) # ""
                           /\ ultimo.args[4] = ChaveConfigurada(PapelPedido)
                           /\ nome # <<>> /\ ultimo.args[2] # ""
                           /\ \A u \in ultimo.antes.usuarios : u.username # nome
          IN  IF permitido
              THEN /\ ultimo.ret = "id"
                   /\ \E u \in usuarios :
                         /\ u.username = nome /\ u.tipo = PapelPedido
                         /\ u \notin ultimo.antes.usuarios
                         /\ usuarios = ultimo.antes.usuarios \cup {u}
              ELSE ultimo.ret = "raise" /\ usuarios = ultimo.antes.usuarios

\* No user key is configured under either name: a registration as USUARIO
\* with an empty api_key, which equals the unset key, was refused.
C25_Witness ==
    /\ ultimo.op = "criar_usuario"
    /\ ultimo.args[3] = "USUARIO" /\ ultimo.args[4] = "" /\ ultimo.args[2] = "s1"
    /\ ultimo.args[1] = Alice
    /\ ChaveConfigurada("USUARIO") = ""
    /\ ChaveConfigurada("ADMINISTRADOR") = "km"
    /\ ultimo.ret = "raise"
    /\ \E u \in usuarios : u.tipo = "ADMINISTRADOR"


(* ------------------------------- C26 ----------------------------------- *)

\* An edit or delete of a stored row made with nobody logged in.
MutacaoAnonima ==
    /\ ExisteAlvo
    /\ Chamador.username = NoneStr
    /\ Chamador.tipo = "<None>"

NadaMudou ==
    /\ TabelaEm(Estado, TabelaDe(ultimo.op)) = TabelaEm(ultimo.antes, TabelaDe(ultimo.op))
    /\ EPIS_ITENS = ultimo.antes.EPIS_ITENS
    /\ AUDIT_LOGS = ultimo.antes.AUDIT_LOGS

\* C26, as the code has it: with nobody logged in, an edit or delete of a
\* record stored with a null owner passes the gate (it returns True whenever
\* it supplies a field, with values the edit accepts), and one of a record
\* that has an owner returns False and changes nothing.
C26_AnonimoPassaComDonoNulo ==
    MutacaoAnonima
    => IF Alvo.usuario = NoneStr
       THEN (Fornecido /\ ValoresValidos) => ultimo.ret = "True"
       ELSE ultimo.ret = "False" /\ NadaMudou

\* With nobody logged in, a delete of a record stored with a null owner
\* returned True and the record is gone.
C26_Witness ==
    /\ MutacaoAnonima
    /\ ultimo.op \in Exclusoes
    /\ Alvo.usuario = NoneStr
    /\ ultimo.ret = "True"
    /\ ~AlvoPersiste

\* C26 as stated: with nobody logged in, every edit and delete of a stored
\* record returns False and changes nothing, null owner or not.
C26_Original == MutacaoAnonima => ultimo.ret = "False" /\ NadaMudou


(* ------------------------------- C27 ----------------------------------- *)

\* An edit or delete of a stored row that a logged-in USUARIO made and that
\* went through.
MutacaoDeUsuario ==
    /\ ExisteAlvo
    /\ Chamador.tipo = "USUARIO"
    /\ ultimo.ret = "True"

\* What the insert of the row the call named left on record.
OrigemDoAlvo == ultimo.antes.origem[ChaveAlvo]

\* C27, as the code has it: a USUARIO edits or deletes a record only if the
\* record carries the username of the session, which is the username of the
\* session that created it.
C27_PosseePeloNome ==
    MutacaoDeUsuario
    => Alvo.usuario = Chamador.username /\ OrigemDoAlvo.por = Chamador.username

\* A USUARIO registered under the username of a deleted account deleted a
\* record the deleted account had created.
C27_Witness ==
    /\ MutacaoDeUsuario
    /\ ultimo.op \in Exclusoes
    /\ OrigemDoAlvo.autor_excluido
    /\ OrigemDoAlvo.por = Chamador.username
    /\ \E u \in ultimo.antes.usuarios :
          u.username = Chamador.username /\ u.id = Chamador.user_id /\ u.tipo = "USUARIO"
    /\ ~AlvoPersiste

\* C27 as stated: a USUARIO edits or deletes a record only if that same
\* account created it: the creator had the session's username and its account
\* has not been deleted since.
C27_Original ==
    MutacaoDeUsuario
    => OrigemDoAlvo.por = Chamador.username /\ ~OrigemDoAlvo.autor_excluido


(* ------------------------------- C28 ----------------------------------- *)

\* The conditions salvar_almoxafire enforces on what it stores.
ValidoParaInserir(r) ==
    /\ r.quantidade > 0
    /\ r.matricula > 0
    /\ r.setor # <<>> /\ r.turno # <<>> /\ r.responsavel # <<>> /\ r.insumo # <<>>

\* C28, the part that holds: every stored Supply-Room record has quantidade > 0
\* and an integer matricula, and the record a salvar_almoxafire has just
\* stored satisfies all the conditions of the insert.
C28_QuantidadePositiva ==
    /\ \A r \in ALMOXAFIRE : r.quantidade > 0 /\ r.matricula # BadInt
    /\ (ultimo.op = "salvar_almoxafire" /\ ultimo.ret = "id")
       => ValidoParaInserir(Row(ALMOXAFIRE, ultimo.rid))

\* An edit by the author, given a blank setor and matricula 0, returned True:
\* the stored record has an empty setor and matricula 0.
C28_Witness ==
    /\ ultimo.op = "editar_almoxafire" /\ ultimo.ret = "True" /\ ExisteAlvo
    /\ ValidoParaInserir(Alvo)
    /\ ultimo.args[1] = <<" ">> /\ ultimo.args[3] = 0
    /\ AlvoAgora.setor = <<>> /\ AlvoAgora.matricula = 0

\* C28 as stated: every stored Supply-Room record satisfies the conditions
\* salvar_almoxafire enforces.
C28_Original == \A r \in ALMOXAFIRE : ValidoParaInserir(r)


(* ------------------------------- C29 ----------------------------------- *)

\* The last call was an editar_almoxafire that raised.
EdicaoComErro == ultimo.op = "editar_almoxafire" /\ ultimo.ret = "raise"

\* C29: when editar_almoxafire raises, no stored record is changed, the fields
\* assigned before the failing one included, and no audit entry is written.
C29_ErroNaoGravaNada ==
    EdicaoComErro => /\ ALMOXAFIRE = ultimo.antes.ALMOXAFIRE
                     /\ AUDIT_LOGS = ultimo.antes.AUDIT_LOGS

\* An authorized edit supplied a setor different from the stored one and a
\* quantidade of 0 or a matricula that is no integer, and raised.
C29_Witness ==
    /\ EdicaoComErro /\ EdicaoAutorizada
    /\ ultimo.args[1] # NoneStr /\ upper(strip(ultimo.args[1])) # Alvo.setor
    /\ ultimo.args[6] = 0 \/ ultimo.args[3] = BadInt
    /\ auditoria_disponivel
    /\ AlvoAgora = Alvo


(* ------------------------------- C30 ----------------------------------- *)

\* The last handler edited or deleted a Blocked-Item record from the page, and
\* the store accepted.
MudouPelaPagina == ultimo.op \in {"editar_registro", "excluir_registro"} /\ ultimo.ret = "True"

\* The item code in the search box (BadInt for a text that is none).
ItemBuscado == int_de_texto(strip(pagina.ed_busca_item))

\* What consultar_registros_por_item returns from the store now.
DoBancoAgora == consultar_registros_por_item(registros, AUDIT_LOGS, ItemBuscado).rows

\* The entry of the searched item the handler found in the cache, younger than
\* the TTL.
EntradaValida ==
    LET cache == ultimo.antes.pagina.consulta_cache
        entry == cache_get(cache, ItemBuscado)
    IN  entry # 0 /\ tempo - cache[entry].ts < pagina.consulta_cache_ttl

Exibidos == pagina.ultimos_resultados_consulta

\* C30, the part that holds: after a successful edit or delete from the page
\* with an item code in the search box, the list shown is the list of the
\* store when the cache holds no entry of that item younger than the TTL, and
\* the list of that entry, whatever the store holds, when it does; with % in
\* the box it is every record of the store.  The cache never holds more than
\* consulta_cache_max entries.
C30_FrescoSoForaDoCache ==
    /\ Len(pagina.consulta_cache) <= pagina.consulta_cache_max
    /\ MudouPelaPagina =>
         /\ (ItemBuscado > 0 /\ ~EntradaValida) => Exibidos = DoBancoAgora
         /\ (ItemBuscado > 0 /\ EntradaValida) =>
               LET cache == ultimo.antes.pagina.consulta_cache
               IN  /\ Exibidos = cache[cache_get(cache, ItemBuscado)].regs
                   /\ pagina.consulta_cache = cache
         /\ strip(pagina.ed_busca_item) = <<"%">> =>
               Exibidos = consultar_todos_registros(registros)

\* A record found by a search of its item code was deleted from the page more
\* than the TTL after the search: the list reloaded comes from the store and
\* no longer has it.
C30_Witness ==
    /\ MudouPelaPagina /\ ultimo.op = "excluir_registro"
    /\ ItemBuscado > 0 /\ Alvo.item = ItemBuscado
    /\ cache_get(ultimo.antes.pagina.consulta_cache, ItemBuscado) # 0
    /\ ~EntradaValida
    /\ Exibidos = DoBancoAgora
    /\ \A i \in 1..Len(Exibidos) : Exibidos[i].id # ultimo.id

\* C30 as stated: after a successful edit or delete from the page, the list
\* shown for the searched item code is what consultar_registros_por_item
\* returns from the store.
C30_Original == (MudouPelaPagina /\ ItemBuscado > 0) => Exibidos = DoBancoAgora

====
